---- MODULE Spec2Model ----
(***************************************************************************)
(* Form snapshot engine of exam-saas: the snapshot store                   *)
(* (FormSnapshotManager), the differ (compareSnapshots), the validator     *)
(* (validateSnapshot), the migration manager (SnapshotMigrationManager),   *)
(* the report generator (generateReport, formatReport and the renderers)   *)
(* and the undo/redo middleware (createUndoRedoMiddleware).                 *)
(***************************************************************************)
EXTENDS Integers, Sequences, FiniteSets, TLC

VARIABLES
    storage,    \* the Storage object: key -> persisted payload
    opts,       \* the manager's fields set by its constructor
    nextId,     \* source of crypto.randomUUID(): the next fresh id
    now,        \* the clock read by Date.now()
    last,       \* the last call: operation, arguments, outcome
    pc,         \* racing writers: position inside createSnapshot
    local,      \* racing writers: the list read by getSnapshots
    made,       \* racing writers: the snapshot each one returned
    writes,     \* racing writers: order in which the setItem calls landed
    diffIn,     \* compareSnapshots: the two snapshots' states
    diffOut,    \* compareSnapshots: its result
    valIn,      \* validateSnapshot: snapshot and config
    valOut,     \* validateSnapshot: its outcome
    verIn,      \* compareVersions: the two version strings
    verOut,     \* compareVersions: what the two comparators returned
    options,    \* SnapshotMigrationManager.options
    migrations, \* SnapshotMigrationManager.migrations
    registered, \* the migrations handed to addMigration so far
    call,       \* the migrateToVersion call: its position and its locals
    checked,    \* validateMigrations: its outcome
    repIn,      \* generateReport: snapshots, config and filters
    repOut,     \* generateReport: the report
    fmtIn,      \* formatReport: the report and the format
    fmtOut,     \* formatReport: the document
    history,    \* undo/redo middleware: past, present, future
    dispatched  \* undo/redo middleware: the actions dispatched and what was passed on

vars == <<storage, opts, nextId, now, last, pc, local, made, writes,
          diffIn, diffOut, valIn, valOut,
          verIn, verOut, options, migrations, registered, call, checked,
          repIn, repOut, fmtIn, fmtOut, history, dispatched>>

storeVars == <<storage, opts, nextId, now, last>>
raceVars  == <<pc, local, made, writes>>
diffVars  == <<diffIn, diffOut>>
valVars   == <<valIn, valOut>>
verVars   == <<verIn, verOut>>
migVars   == <<options, migrations, registered, call, checked>>
managerVars == <<verVars, migVars>>
reportVars == <<repIn, repOut>>
formatVars == <<fmtIn, fmtOut>>
undoVars   == <<history, dispatched>>
restVars   == <<reportVars, formatVars, undoVars>>

-----------------------------------------------------------------------------
(* Bounds of the model *)

\* the most segments a version string has
MaxSegments == 3
\* number of migrateToVersion calls made one after another
MaxCalls == 2
\* largest timestamp of a snapshot handed to generateReport
MaxStamp == 2
\* number of actions dispatched through the undo/redo middleware
MaxDispatches == 5

\* largest maxSnapshots option passed to the constructor
MaxSnapshots == 2
\* number of ids crypto.randomUUID() hands out in one run
MaxId == 3
\* largest reading of the clock
MaxTime == 1

\* this.maxSnapshots = options.maxSnapshots || 10
DefaultMaxSnapshots == 10

-----------------------------------------------------------------------------
(* JavaScript values.  A value is a record {t, v, o}: t the type tag, v the   *)
(* number (or the truth value, the length of the string, the identity of    *)
(* the object), o the object's own properties in insertion order.           *)

Fields == {"a", "b"}

Undef   == [t |-> "undefined", v |-> 0, o |-> <<>>]
Null    == [t |-> "null", v |-> 0, o |-> <<>>]
NaN     == [t |-> "nan", v |-> 0, o |-> <<>>]
Num(n)  == [t |-> "number", v |-> n, o |-> <<>>]
\* a string of n characters
Str(n)  == [t |-> "string", v |-> n, o |-> <<>>]
Bool(n) == [t |-> "boolean", v |-> n, o |-> <<>>]
Arr     == [t |-> "array", v |-> 0, o |-> <<>>]
Fn      == [t |-> "function", v |-> 0, o |-> <<>>]
\* an object `{}` living at address r; address 0 is a copy made by JSON.parse
Obj(r)  == [t |-> "object", v |-> r, o |-> <<>>]
\* an object with the properties `members`, each a key and a number
Nested(members) == [t |-> "object", v |-> 0, o |-> members]
Prop(k, n) == [k |-> k, n |-> n]

\* values a caller puts into a field of the form state
FieldValues == {Undef, Num(1), Obj(1), Obj(2)}

\* x !== y : primitives by value, objects by identity
StrictNotEqual(x, y) == IF x.t = "nan" \/ y.t = "nan" THEN TRUE ELSE x # y

\* JSON.stringify(x): the text, as its kind, its number and its members in the
\* order the object holds them; undefined and functions give no text at all
\* (the JavaScript value undefined), NaN gives "null"
JsonStringify(x) ==
    CASE x.t \in {"undefined", "function"} -> [k |-> "undefined", n |-> 0, m |-> <<>>]
      [] x.t \in {"null", "nan"}           -> [k |-> "null", n |-> 0, m |-> <<>>]
      [] x.t = "object"                    -> [k |-> "object", n |-> 0, m |-> x.o]
      [] OTHER                             -> [k |-> x.t, n |-> x.v, m |-> <<>>]

\* JSON.parse(text): objects are fresh copies
JsonParse(text) ==
    CASE text.k = "undefined" -> Undef
      [] text.k = "object"    -> Nested(text.m)
      [] OTHER                -> [t |-> text.k, v |-> text.n, o |-> <<>>]

\* JSON.parse(JSON.stringify(x)) of a property value: an object comes back as
\* a copy without the identity of the original; a key holding undefined is
\* dropped and reads back as undefined
JsonValue(x) == JsonParse(JsonStringify(x))

JsonState(s) == [f \in DOMAIN s |-> JsonValue(s[f])]

NoMeta == [present |-> FALSE, auto |-> FALSE, changes |-> <<>>]

JsonMeta(m) ==
    IF ~m.present THEN m
    ELSE [m EXCEPT !.changes =
            [f \in DOMAIN m.changes |->
                [from |-> JsonValue(m.changes[f].from),
                 to   |-> JsonValue(m.changes[f].to)]]]

JsonSnapshot(s) ==
    [s EXCEPT !.state = JsonState(s.state), !.metadata = JsonMeta(s.metadata)]

JsonList(l) == [i \in 1..Len(l) |-> JsonSnapshot(l[i])]

-----------------------------------------------------------------------------
(* Storage payloads *)

\* getItem returns null: nothing stored under the key
Absent == [kind |-> "absent"]
\* text that JSON.parse rejects
Garbage == [kind |-> "garbage"]
\* the text written by saveSnapshots: JSON of a list, optionally compressed
ListText(compressed, l) ==
    [kind |-> "json", compressed |-> compressed, doc |-> [t |-> "list", items |-> l]]
\* valid JSON that is not a list, such as `{}`
ObjectText(compressed) ==
    [kind |-> "json", compressed |-> compressed, doc |-> [t |-> "object", items |-> <<>>]]

EmptyList == [t |-> "list", items |-> <<>>]

\* `${this.namespace}_${formId}`
SnapshotKeyOf(namespace, formId) == namespace \o "_" \o formId

DefaultNamespace == "form_snapshots"

FormId == "exam"
OtherFormId == "quiz"

StorageKeys == {SnapshotKeyOf(DefaultNamespace, FormId),
                SnapshotKeyOf(DefaultNamespace, OtherFormId)}

\* constructor(formId, options)
Constructor(formId, maxSnapshotsOpt, autoCleanup, compressionEnabled) ==
    [maxSnapshots       |-> IF maxSnapshotsOpt = 0 THEN DefaultMaxSnapshots
                                                 ELSE maxSnapshotsOpt,
     autoCleanup        |-> autoCleanup,
     compressionEnabled |-> compressionEnabled,
     snapshotKey        |-> SnapshotKeyOf(DefaultNamespace, formId)]

\* compress(JSON.stringify(snapshots))
Compress(o, l) == ListText(o.compressionEnabled, JsonList(l))

\* JSON.parse(this.decompress(data)): the parsed document, or "throw" when
\* atob / decodeURIComponent / JSON.parse rejects the text
ParsePayload(o, data) ==
    IF data.kind = "garbage" THEN [t |-> "throw", items |-> <<>>]
    ELSE IF data.compressed # o.compressionEnabled THEN [t |-> "throw", items |-> <<>>]
    ELSE data.doc

\* getSnapshots(): the try/catch turns every failure into []
GetSnapshots(o, store, getItemThrows) ==
    IF getItemThrows THEN EmptyList
    ELSE LET data == store[o.snapshotKey] IN
         IF data.kind = "absent" THEN EmptyList
         ELSE LET doc == ParsePayload(o, data) IN
              IF doc.t = "throw" THEN EmptyList ELSE doc

-----------------------------------------------------------------------------
(* The snapshot store: FormSnapshotManager *)

\* the object literal built by createSnapshot
NewSnapshot(id, t, state, metadata) ==
    [id |-> id, timestamp |-> t, state |-> state, version |-> "1.0",
     metadata |-> metadata]

\* a store that puts the new snapshot in front (unshift) instead of appending
PushFront(l, snapshot) == <<snapshot>> \o l

\* snapshots.push(snapshot)
Push(l, snapshot) == Append(l, snapshot)

\* a cleanup that lets the list grow one past the maximum before it evicts
CleanedUpLate(o, l) ==
    IF o.autoCleanup /\ Len(l) > o.maxSnapshots + 1 THEN Tail(l) ELSE l

\* if (this.autoCleanup && snapshots.length > this.maxSnapshots) snapshots.shift()
CleanedUp(o, l) ==
    IF o.autoCleanup /\ Len(l) > o.maxSnapshots THEN Tail(l) ELSE l

\* the list createSnapshot hands to saveSnapshots
ListToSave(o, snapshots, snapshot) == CleanedUp(o, Push(snapshots, snapshot))

\* a save that arbitrates: it keeps what another writer stored meanwhile and
\* adds its own entries behind it
SaveMerged(o, store, l) ==
    LET theirs == GetSnapshots(o, store, FALSE).items
        mine   == {l[i].id : i \in 1..Len(l)}
        kept   == SelectSeq(theirs, LAMBDA s : s.id \notin mine)
    IN  [store EXCEPT ![o.snapshotKey] = Compress(o, kept \o l)]

\* saveSnapshots(snapshots): setItem under the manager's key; no try/catch
SaveSnapshots(o, store, l) == [store EXCEPT ![o.snapshotKey] = Compress(o, l)]

NoSnap == [id |-> 0, timestamp |-> 0, state |-> <<>>, version |-> "", metadata |-> NoMeta]
NoArgs == [id |-> 0, config |-> <<>>, current |-> <<>>, prev |-> <<>>]
Idle == [op |-> "none", thrown |-> FALSE, args |-> NoArgs, fault |-> "none",
         snap |-> NoSnap, found |-> FALSE, list |-> EmptyList, before |-> Absent]

Min(x, y) == IF x < y THEN x ELSE y

\* readings Date.now() can give next
ClockReadings == now .. Min(now + 1, MaxTime)

\* createSnapshot(state, metadata), called as operation `op` with arguments `args`
CreateSnapshotCall(op, args, state, metadata, t, fault) ==
    LET snapshots == GetSnapshots(opts, storage, fault = "getItem")
        snapshot  == NewSnapshot(nextId, t, state, metadata)
        notArray  == snapshots.t # "list"          \* snapshots.push is not a function
        thrown    == notArray \/ fault = "setItem"
    IN  /\ nextId <= MaxId
        /\ nextId' = nextId + 1
        /\ now' = t
        /\ storage' = IF thrown THEN storage
                      ELSE SaveSnapshots(opts, storage,
                                         ListToSave(opts, snapshots.items, snapshot))
        /\ last' = [op |-> op, thrown |-> thrown, args |-> args, fault |-> fault,
                    snap |-> IF thrown THEN NoSnap ELSE snapshot,
                    found |-> ~thrown, list |-> snapshots,
                    before |-> storage[opts.snapshotKey]]
        /\ UNCHANGED opts

\* snapshots.find(s => s.id === id) || null, as the index of the hit or 0
FindIndex(l, id) ==
    IF \E i \in 1..Len(l) : l[i].id = id
    THEN CHOOSE i \in 1..Len(l) : l[i].id = id /\ \A j \in 1..(i-1) : l[j].id # id
    ELSE 0

\* getSnapshot(id) / restoreSnapshot(id): both go through getSnapshots and find
GetSnapshotCall(op, id, fault) ==
    LET snapshots == GetSnapshots(opts, storage, fault = "getItem")
        thrown    == snapshots.t # "list"          \* snapshots.find is not a function
        i         == IF thrown THEN 0 ELSE FindIndex(snapshots.items, id)
    IN  /\ last' = [op |-> op, thrown |-> thrown, args |-> [NoArgs EXCEPT !.id = id],
                    fault |-> fault,
                    snap |-> IF i = 0 THEN NoSnap ELSE snapshots.items[i],
                    found |-> i # 0, list |-> snapshots,
                    before |-> storage[opts.snapshotKey]]
        /\ UNCHANGED <<storage, opts, nextId, now>>

\* getAllSnapshots(): returns whatever getSnapshots returns
GetAllSnapshotsCall(fault) ==
    LET snapshots == GetSnapshots(opts, storage, fault = "getItem")
    IN  /\ last' = [op |-> "getAllSnapshots", thrown |-> FALSE, args |-> NoArgs,
                    fault |-> fault, snap |-> NoSnap, found |-> FALSE,
                    list |-> snapshots, before |-> storage[opts.snapshotKey]]
        /\ UNCHANGED <<storage, opts, nextId, now>>

\* snapshots.splice(index): without the count, everything from index on goes
SpliceToEnd(l, i) == SubSeq(l, 1, i - 1)

\* snapshots.splice(index, 1)
Splice(l, i) == [j \in 1..(Len(l) - 1) |-> IF j < i THEN l[j] ELSE l[j + 1]]

\* deleteSnapshot(id)
DeleteSnapshotCall(id, fault) ==
    LET snapshots == GetSnapshots(opts, storage, fault = "getItem")
        notArray  == snapshots.t # "list"          \* snapshots.findIndex is not a function
        i         == IF notArray THEN 0 ELSE FindIndex(snapshots.items, id)
        thrown    == notArray \/ (i # 0 /\ fault = "setItem")
    IN  /\ storage' = IF thrown \/ i = 0 THEN storage
                      ELSE SaveSnapshots(opts, storage, Splice(snapshots.items, i))
        /\ last' = [op |-> "deleteSnapshot", thrown |-> thrown,
                    args |-> [NoArgs EXCEPT !.id = id], fault |-> fault,
                    snap |-> NoSnap, found |-> (~thrown /\ i # 0), list |-> snapshots,
                    before |-> storage[opts.snapshotKey]]
        /\ UNCHANGED <<opts, nextId, now>>

\* clearSnapshots(): removeItem under the manager's key
ClearSnapshotsCall(fault) ==
    LET thrown == fault = "removeItem"
    IN  /\ storage' = IF thrown THEN storage
                      ELSE [storage EXCEPT ![opts.snapshotKey] = Absent]
        /\ last' = [op |-> "clearSnapshots", thrown |-> thrown, args |-> NoArgs,
                    fault |-> fault, snap |-> NoSnap, found |-> FALSE,
                    list |-> EmptyList, before |-> storage[opts.snapshotKey]]
        /\ UNCHANGED <<opts, nextId, now>>

\* a trigger that forgets the important flag: any declared field that changed
HasAnyChanges(config, current, prev) ==
    \E f \in DOMAIN config : StrictNotEqual(current[f], prev[f])

\* Object.entries(formConfig).some(([key, config]) =>
\*     config.important && currentState[key] !== prevState[key])
HasImportantChanges(config, current, prev) ==
    \E f \in DOMAIN config : config[f].important /\ StrictNotEqual(current[f], prev[f])

\* the changes object filled by the forEach over Object.keys(formConfig)
ChangesOf(config, current, prev) ==
    [f \in {g \in DOMAIN config : StrictNotEqual(current[g], prev[g])} |->
        [from |-> prev[f], to |-> current[f]]]

\* createAutoSnapshot(formConfig, currentState, prevState)
CreateAutoSnapshotCall(config, current, prev, t, fault) ==
    LET args == [id |-> 0, config |-> config, current |-> current, prev |-> prev]
    IN  IF HasImportantChanges(config, current, prev)
        THEN CreateSnapshotCall("createAutoSnapshot", args, current,
                 [present |-> TRUE, auto |-> TRUE,
                  changes |-> ChangesOf(config, current, prev)], t, fault)
        ELSE /\ last' = [op |-> "createAutoSnapshot", thrown |-> FALSE, args |-> args,
                         fault |-> fault, snap |-> NoSnap, found |-> FALSE,
                         list |-> EmptyList, before |-> storage[opts.snapshotKey]]
             /\ UNCHANGED <<storage, opts, nextId, now>>


-----------------------------------------------------------------------------
(* Inputs of the store's operations *)

\* form states: every field holds one of the field values
FormStates == [Fields -> FieldValues]

\* states handed to createSnapshot directly
ManualStates == {[a |-> Obj(1), b |-> Num(1)]}

\* metadata handed to createSnapshot directly: the optional argument left out
ManualMetas == {NoMeta}

\* SnapshotFormConfig: the declared fields, each marked important or not
FormConfigs ==
    UNION {[D -> [important : BOOLEAN]] : D \in (SUBSET Fields) \ {{}}}

\* createAutoSnapshot calls made while the store's history is explored: a
\* few configurations and states (SpecAuto explores all of them)
SampleConfigs == {[a |-> [important |-> TRUE], b |-> [important |-> FALSE]]}
SampleStates == ManualStates \cup {[a |-> Obj(2), b |-> Num(1)]}

\* ids a caller may ask for: every id handed out so far, and one never handed out
AskedIds == 1..MaxId + 1

-----------------------------------------------------------------------------
(* The other components stay idle while the store runs *)

Writers == {"tab1", "tab2"}

RaceIdle ==
    /\ pc = [w \in Writers |-> "off"]
    /\ local = [w \in Writers |-> EmptyList]
    /\ made = [w \in Writers |-> NoSnap]
    /\ writes = <<>>

NoDiff == [ran |-> FALSE]
DiffIdle == diffIn = NoDiff /\ diffOut = NoDiff

NoVal == [ran |-> FALSE]
ValIdle == valIn = NoVal /\ valOut = NoVal

NoVer == [ran |-> FALSE]
VerIdle == verIn = NoVer /\ verOut = NoVer

\* a snapshot as the migration manager sees it.  state is what the migration
\* functions made of a starting state: base names the starting state and ops
\* lists the functions applied to it that were not undone.  metadata is
\* undefined (present FALSE) or an object; listed says that it holds a
\* migrations list.
NoMigMetadata == [present |-> FALSE, auto |-> FALSE, listed |-> FALSE,
                  migrations |-> <<>>]
NoMigSnapshot == [id |-> 0, timestamp |-> 0,
                  state |-> [base |-> "none", ops |-> <<>>],
                  version |-> <<>>, metadata |-> NoMigMetadata]
NoError == [name |-> "", version |-> <<>>, snapshot |-> NoMigSnapshot]

\* no migrateToVersion call was made yet
NoCall == [phase |-> "idle", calls |-> 0, passed |-> NoMigSnapshot,
           input |-> NoMigSnapshot, target |-> <<>>, direction |-> "",
           chain |-> <<>>, frames |-> <<>>, settled |-> 0,
           current |-> NoMigSnapshot, result |-> NoMigSnapshot,
           error |-> NoError, origin |-> NoMigSnapshot]
NoCheck == [ran |-> FALSE, thrown |-> FALSE, errors |-> <<>>]
MigIdle ==
    /\ options = [strict |-> TRUE]
    /\ migrations = <<>>
    /\ registered = {}
    /\ call = NoCall
    /\ checked = NoCheck

ManagerIdle == VerIdle /\ MigIdle

NoReport == [ran |-> FALSE]
ReportIdle == repIn = NoReport /\ repOut = NoReport

NoFormat == [ran |-> FALSE]
FormatIdle == fmtIn = NoFormat /\ fmtOut = NoFormat

\* the closure of a middleware that was not created
NoHistory == [past |-> <<>>, present |-> <<>>, future |-> <<>>]
UndoIdle == history = NoHistory /\ dispatched = <<>>

RestIdle == ReportIdle /\ FormatIdle /\ UndoIdle

-----------------------------------------------------------------------------
(* Spec: one manager, the only writer of its key, on a storage that works *)

StoreInit ==
    /\ storage = [k \in StorageKeys |-> Absent]
    /\ \E n \in 0..MaxSnapshots, ac \in BOOLEAN :
           opts = Constructor(FormId, n, ac, FALSE)
    /\ nextId = 1
    /\ now = 0
    /\ last = Idle

Init == StoreInit /\ RaceIdle /\ DiffIdle /\ ValIdle /\ ManagerIdle /\ RestIdle

CreateSnapshot ==
    /\ \E state \in ManualStates, metadata \in ManualMetas, t \in ClockReadings :
           CreateSnapshotCall("createSnapshot", NoArgs, state, metadata, t, "none")
    /\ UNCHANGED <<raceVars, diffVars, valVars, managerVars, restVars>>

CreateAutoSnapshot ==
    /\ \E config \in SampleConfigs, current \in SampleStates, prev \in SampleStates,
          t \in ClockReadings :
           CreateAutoSnapshotCall(config, current, prev, t, "none")
    /\ UNCHANGED <<raceVars, diffVars, valVars, managerVars, restVars>>

GetSnapshot ==
    /\ \E id \in AskedIds : GetSnapshotCall("getSnapshot", id, "none")
    /\ UNCHANGED <<raceVars, diffVars, valVars, managerVars, restVars>>

RestoreSnapshot ==
    /\ \E id \in AskedIds : GetSnapshotCall("restoreSnapshot", id, "none")
    /\ UNCHANGED <<raceVars, diffVars, valVars, managerVars, restVars>>

GetAllSnapshots ==
    /\ GetAllSnapshotsCall("none")
    /\ UNCHANGED <<raceVars, diffVars, valVars, managerVars, restVars>>

DeleteSnapshot ==
    /\ \E id \in AskedIds : DeleteSnapshotCall(id, "none")
    /\ UNCHANGED <<raceVars, diffVars, valVars, managerVars, restVars>>

ClearSnapshots ==
    /\ ClearSnapshotsCall("none")
    /\ UNCHANGED <<raceVars, diffVars, valVars, managerVars, restVars>>

Next ==
    \/ CreateSnapshot
    \/ CreateAutoSnapshot
    \/ GetSnapshot
    \/ RestoreSnapshot
    \/ GetAllSnapshots
    \/ DeleteSnapshot
    \/ ClearSnapshots

Spec == Init /\ [][Next]_vars


-----------------------------------------------------------------------------
(* What is persisted under the manager's key, seen as a list *)

\* the list a payload decodes to for this manager
ListIn(payload) ==
    GetSnapshots(opts, [storage EXCEPT ![opts.snapshotKey] = payload], FALSE).items

Persisted == ListIn(storage[opts.snapshotKey])
Before == ListIn(last.before)

Ids(l) == {l[i].id : i \in 1..Len(l)}

Creates == {"createSnapshot", "createAutoSnapshot"}

\* C1: with autoCleanup on and maxSnapshots = N the persisted list never holds
\* more than N snapshots, and createSnapshot on a list of N leaves N: the old
\* head is gone, the other N-1 follow in their order, the new one is last.
EvictionKeepsNewest ==
    opts.autoCleanup =>
        /\ Len(Persisted) <= opts.maxSnapshots
        /\ (last.op = "createSnapshot" /\ Len(Before) = opts.maxSnapshots) =>
              /\ Len(Persisted) = opts.maxSnapshots
              /\ Before[1].id \notin Ids(Persisted)
              /\ \A i \in 1..(opts.maxSnapshots - 1) : Persisted[i] = Before[i + 1]
              /\ Persisted[opts.maxSnapshots] = JsonSnapshot(last.snap)

\* createSnapshot has just run on a full list of at least two
EvictionHappened ==
    /\ opts.autoCleanup
    /\ last.op = "createSnapshot"
    /\ opts.maxSnapshots >= 2
    /\ Len(Before) = opts.maxSnapshots

\* C5: createSnapshot appends and never reorders: the list after it is the
\* list before it, less at most the evicted head, followed by the new
\* snapshot; so the persisted list is always in creation order (ids are handed
\* out in creation order) with timestamps that never decrease.
AppendOnlyInCreationOrder ==
    /\ \A i \in 1..Len(Persisted), j \in 1..Len(Persisted) :
          i < j => /\ Persisted[i].id < Persisted[j].id
                   /\ Persisted[i].timestamp <= Persisted[j].timestamp
    /\ (last.op \in Creates /\ last.found) =>
          /\ Persisted # <<>>
          /\ Persisted[Len(Persisted)] = JsonSnapshot(last.snap)
          /\ LET kept == SubSeq(Persisted, 1, Len(Persisted) - 1)
             IN  kept = Before \/ (Before # <<>> /\ kept = Tail(Before))

\* a snapshot was created after an older one had been deleted from the middle
CreatedAfterDelete ==
    /\ last.op \in Creates /\ last.found
    /\ Len(Persisted) >= 2
    /\ Persisted[2].id > Persisted[1].id + 1
    /\ Persisted[2].timestamp > Persisted[1].timestamp

\* C6: deleteSnapshot(id) of an id that is not stored returns false and
\* leaves the payload as it was; of a stored id it returns true and leaves
\* the list without exactly that snapshot, the others in their order, and
\* getSnapshot(id) / restoreSnapshot(id) then find nothing.
DeleteRemovesExactlyOne ==
    last.op = "deleteSnapshot" =>
        IF last.args.id \notin Ids(Before)
        THEN ~last.found /\ storage[opts.snapshotKey] = last.before
        ELSE /\ last.found
             /\ Len(Persisted) = Len(Before) - 1
             /\ \E i \in 1..Len(Before) :
                   /\ Before[i].id = last.args.id
                   /\ \A j \in 1..Len(Persisted) :
                         Persisted[j] = IF j < i THEN Before[j] ELSE Before[j + 1]
             /\ FindIndex(Persisted, last.args.id) = 0

\* a snapshot that had a successor was deleted
DeletedFromTheMiddle ==
    /\ last.op = "deleteSnapshot" /\ last.found
    /\ Len(Before) >= 2
    /\ Before[Len(Before)].id # last.args.id


-----------------------------------------------------------------------------
(* SpecAuto: one createAutoSnapshot call, with every configuration and every *)
(* pair of states, on a store that earlier createSnapshot calls have filled  *)

RECURSIVE ManualHistory(_, _)
\* the list persisted after k createSnapshot calls on an empty store
ManualHistory(o, k) ==
    IF k = 0 THEN <<>>
    ELSE JsonList(ListToSave(o, ManualHistory(o, k - 1),
                             NewSnapshot(k, 0, CHOOSE st \in ManualStates : TRUE, NoMeta)))

\* the storage after k createSnapshot calls
StorageAfter(o, k) ==
    [key \in StorageKeys |->
        IF key = o.snapshotKey /\ k > 0 THEN Compress(o, ManualHistory(o, k)) ELSE Absent]

AutoInit ==
    /\ \E n \in 0..MaxSnapshots, ac \in BOOLEAN, k \in 0..(MaxId - 1) :
          /\ opts = Constructor(FormId, n, ac, FALSE)
          /\ storage = StorageAfter(opts, k)
          /\ nextId = k + 1
    /\ now = 0
    /\ last = Idle
    /\ RaceIdle /\ DiffIdle /\ ValIdle /\ ManagerIdle /\ RestIdle

CreateAutoSnapshotOnce ==
    /\ last.op = "none"
    /\ \E config \in FormConfigs, current \in FormStates, prev \in FormStates,
          t \in ClockReadings :
           CreateAutoSnapshotCall(config, current, prev, t, "none")
    /\ UNCHANGED <<raceVars, diffVars, valVars, managerVars, restVars>>

NextAuto == CreateAutoSnapshotOnce

SpecAuto == AutoInit /\ [][NextAuto]_vars

\* C7: createAutoSnapshot creates a snapshot exactly when some field the
\* config marks important has current and previous values that are not
\* identical; otherwise it returns none and the payload stays as it was; the
\* created snapshot carries auto = true and a changes map {from, to} for
\* exactly the config's fields whose two values are not identical.
AutoSnapshotOnlyOnImportantChange ==
    last.op = "createAutoSnapshot" =>
        LET config  == last.args.config
            current == last.args.current
            prev    == last.args.prev
            changed == {f \in DOMAIN config : current[f] # prev[f]}
        IN  IF \E f \in changed : config[f].important
            THEN /\ last.found
                 /\ last.snap.state = current
                 /\ last.snap.metadata.present
                 /\ last.snap.metadata.auto
                 /\ DOMAIN last.snap.metadata.changes = changed
                 /\ \A f \in changed :
                       last.snap.metadata.changes[f] = [from |-> prev[f], to |-> current[f]]
                 /\ Persisted # <<>>
                 /\ Persisted[Len(Persisted)] = JsonSnapshot(last.snap)
            ELSE /\ ~last.found
                 /\ last.snap = NoSnap
                 /\ storage = [storage EXCEPT ![opts.snapshotKey] = last.before]

\* an auto snapshot made because an important field holds another object with
\* the same content, recording a second, unimportant change as well
AutoSnapshotOnNewObject ==
    /\ last.op = "createAutoSnapshot" /\ last.found
    /\ last.args.current["a"] = Obj(1) /\ last.args.prev["a"] = Obj(2)
    /\ "a" \in DOMAIN last.args.config /\ last.args.config["a"].important
    /\ Cardinality(DOMAIN last.snap.metadata.changes) = 2
    /\ Len(Before) >= 1


-----------------------------------------------------------------------------
(* SpecFault: the same manager on a Storage whose calls may throw and whose  *)
(* payload other programs may overwrite                                      *)

\* payloads found under the key that saveSnapshots did not write
CorruptPayloads == {Garbage} \cup {ObjectText(c) : c \in BOOLEAN}

FaultInit ==
    /\ storage = [k \in StorageKeys |-> Absent]
    /\ \E n \in 1..MaxSnapshots, ce \in BOOLEAN :
           opts = Constructor(FormId, n, TRUE, ce)
    /\ nextId = 1
    /\ now = 0
    /\ last = Idle
    /\ RaceIdle /\ DiffIdle /\ ValIdle /\ ManagerIdle /\ RestIdle

\* the payload under the manager's key is replaced from outside the manager
CorruptPayload ==
    /\ \E payload \in CorruptPayloads :
           storage' = [storage EXCEPT ![opts.snapshotKey] = payload]
    /\ last' = [Idle EXCEPT !.op = "corrupt", !.before = storage[opts.snapshotKey]]
    /\ UNCHANGED <<opts, nextId, now, raceVars, diffVars, valVars, managerVars, restVars>>

CreateSnapshotF ==
    /\ \E state \in ManualStates, metadata \in ManualMetas, t \in ClockReadings,
          fault \in {"none", "getItem", "setItem"} :
           CreateSnapshotCall("createSnapshot", NoArgs, state, metadata, t, fault)
    /\ UNCHANGED <<raceVars, diffVars, valVars, managerVars, restVars>>

GetSnapshotF ==
    /\ \E id \in AskedIds, fault \in {"none", "getItem"} :
           GetSnapshotCall("getSnapshot", id, fault)
    /\ UNCHANGED <<raceVars, diffVars, valVars, managerVars, restVars>>

RestoreSnapshotF ==
    /\ \E id \in AskedIds, fault \in {"none", "getItem"} :
           GetSnapshotCall("restoreSnapshot", id, fault)
    /\ UNCHANGED <<raceVars, diffVars, valVars, managerVars, restVars>>

GetAllSnapshotsF ==
    /\ \E fault \in {"none", "getItem"} : GetAllSnapshotsCall(fault)
    /\ UNCHANGED <<raceVars, diffVars, valVars, managerVars, restVars>>

DeleteSnapshotF ==
    /\ \E id \in AskedIds, fault \in {"none", "getItem", "setItem"} :
           DeleteSnapshotCall(id, fault)
    /\ UNCHANGED <<raceVars, diffVars, valVars, managerVars, restVars>>

ClearSnapshotsF ==
    /\ \E fault \in {"none", "removeItem"} : ClearSnapshotsCall(fault)
    /\ UNCHANGED <<raceVars, diffVars, valVars, managerVars, restVars>>

NextFault ==
    \/ CorruptPayload
    \/ CreateSnapshotF
    \/ GetSnapshotF
    \/ RestoreSnapshotF
    \/ GetAllSnapshotsF
    \/ DeleteSnapshotF
    \/ ClearSnapshotsF

SpecFault == FaultInit /\ [][NextFault]_vars

\* C2: createSnapshot fails silently when the storage throws: whether setItem
\* or getItem throws, no exception reaches the caller and the payload that
\* was persisted before the call is still there.
CreateSnapshotFailsSilently ==
    (last.op = "createSnapshot" /\ last.fault \in {"getItem", "setItem"}) =>
        /\ ~last.thrown
        /\ storage[opts.snapshotKey] = last.before

\* C3: whatever the payload is (absent, a saved list, text that does not
\* decode or parse, text that parses to something that is no list), the read
\* operations never throw, and on a corrupt payload getAllSnapshots returns
\* the empty list and getSnapshot / restoreSnapshot return not-found.
ReadsNeverThrow ==
    last.op \in {"getSnapshot", "restoreSnapshot", "getAllSnapshots"} =>
        /\ ~last.thrown
        /\ last.before \in CorruptPayloads => (last.list = EmptyList /\ ~last.found)


-----------------------------------------------------------------------------
(* SpecRace: two manager instances (two tabs) bound to the same key, each    *)
(* running createSnapshot once; a tab can be scheduled between the other's   *)
(* getItem and setItem                                                       *)

RaceInit ==
    /\ \E n \in 0..MaxSnapshots, ac \in BOOLEAN, k \in 0..(MaxId - 2) :
          /\ opts = Constructor(FormId, n, ac, FALSE)
          /\ storage = StorageAfter(opts, k)
          /\ nextId = k + 1
    /\ now = 0
    /\ last = Idle
    /\ pc = [w \in Writers |-> "idle"]
    /\ local = [w \in Writers |-> EmptyList]
    /\ made = [w \in Writers |-> NoSnap]
    /\ writes = <<>>
    /\ DiffIdle /\ ValIdle /\ ManagerIdle /\ RestIdle

\* const snapshots = this.getSnapshots()
RaceRead(w) ==
    /\ pc[w] = "idle"
    /\ local' = [local EXCEPT ![w] = GetSnapshots(opts, storage, FALSE)]
    /\ pc' = [pc EXCEPT ![w] = "read"]
    /\ UNCHANGED <<storage, opts, nextId, now, last, made, writes, diffVars, valVars, managerVars, restVars>>

\* the rest of createSnapshot: build the snapshot, push, clean up, save
RaceWrite(w) ==
    /\ pc[w] = "read"
    /\ nextId <= MaxId
    /\ \E state \in ManualStates, t \in ClockReadings :
          LET snapshot == NewSnapshot(nextId, t, state, NoMeta)
          IN  /\ storage' = SaveSnapshots(opts, storage,
                                ListToSave(opts, local[w].items, snapshot))
              /\ made' = [made EXCEPT ![w] = snapshot]
              /\ now' = t
    /\ nextId' = nextId + 1
    /\ writes' = Append(writes, w)
    /\ pc' = [pc EXCEPT ![w] = "done"]
    /\ UNCHANGED <<opts, last, local, diffVars, valVars, managerVars, restVars>>

ReadStep == \E w \in Writers : RaceRead(w)
WriteStep == \E w \in Writers : RaceWrite(w)

NextRace == ReadStep \/ WriteStep

SpecRace == RaceInit /\ [][NextRace]_vars

BothDone == \A w \in Writers : pc[w] = "done"

\* C4: when two instances on one key interleave their createSnapshot calls,
\* the payload after both have finished is exactly what the later setItem
\* wrote: the list that writer had read, with its own snapshot appended and
\* the head evicted on overflow; nothing merged, duplicated or torn.
LastWriteWins ==
    BothDone =>
        LET w    == writes[Len(writes)]
            mine == local[w].items \o <<JsonSnapshot(made[w])>>
        IN  storage[opts.snapshotKey] =
                ListText(opts.compressionEnabled,
                         IF opts.autoCleanup /\ Len(mine) > opts.maxSnapshots
                         THEN Tail(mine) ELSE mine)

\* both tabs read before either wrote: the first writer's snapshot is lost,
\* though the list had room for both
LostUpdate ==
    /\ BothDone
    /\ made[writes[1]].id \notin Ids(Persisted)
    /\ Len(Persisted) < opts.maxSnapshots
    /\ Len(Persisted) >= 2


-----------------------------------------------------------------------------
(* The differ: compareSnapshots(snapshot1, snapshot2)                        *)

DiffKeys == {"a", "b", "c"}

\* the same two properties, inserted in either order
ObjXY == Nested(<<Prop("x", 1), Prop("y", 2)>>)
ObjYX == Nested(<<Prop("y", 2), Prop("x", 1)>>)

DiffValues == {Num(1), Num(2), Null, NaN, ObjXY, ObjYX}

\* states: any subset of the keys, each holding one of the values
DiffStates == UNION {[D -> DiffValues] : D \in SUBSET DiffKeys}

\* Object.keys(state), in the order the keys were inserted
KeyOrder == <<"a", "b", "c">>
ObjectKeys(state) == SelectSeq(KeyOrder, LAMBDA k : k \in DOMAIN state)

\* JSON.stringify(x) !== JSON.stringify(y)
SerializedDiffer(x, y) == JsonStringify(x) # JsonStringify(y)

\* compareSnapshots: the two loops over keys2 and keys1
CompareSnapshotsResult(state1, state2) ==
    LET keys1 == DOMAIN state1
        keys2 == DOMAIN state2
    IN  [ran       |-> TRUE,
         added     |-> [k \in keys2 \ keys1 |-> state2[k]],
         removed   |-> [k \in keys1 \ keys2 |-> state1[k]],
         modified  |-> [k \in {q \in keys1 \cap keys2 :
                                  SerializedDiffer(state1[q], state2[q])} |->
                            [from |-> state1[k], to |-> state2[k]]],
         unchanged |-> SelectSeq(ObjectKeys(state1),
                           LAMBDA k : k \in keys2 /\ ~SerializedDiffer(state1[k], state2[k]))]

\* the store and the racing tabs stay as constructed
StoreIdle ==
    /\ storage = [k \in StorageKeys |-> Absent]
    /\ opts = Constructor(FormId, 0, TRUE, FALSE)
    /\ nextId = 1
    /\ now = 0
    /\ last = Idle

DiffInit ==
    /\ \E state1 \in DiffStates, state2 \in DiffStates :
           diffIn = [ran |-> TRUE, state1 |-> state1, state2 |-> state2]
    /\ diffOut = NoDiff
    /\ StoreIdle /\ RaceIdle /\ ValIdle /\ ManagerIdle /\ RestIdle

CompareSnapshots ==
    /\ ~diffOut.ran
    /\ diffOut' = CompareSnapshotsResult(diffIn.state1, diffIn.state2)
    /\ UNCHANGED <<diffIn, storeVars, raceVars, valVars, managerVars, restVars>>

NextDiff == CompareSnapshots

SpecDiff == DiffInit /\ [][NextDiff]_vars

\* the keys of nested objects, sorted
SortedKeys == <<"x", "y">>
LessKey(p, q) == \E i \in 1..Len(SortedKeys), j \in 1..Len(SortedKeys) :
                    i < j /\ SortedKeys[i] = p /\ SortedKeys[j] = q

\* members of an object sorted by key: the canonical serialization
CanonicalText(x) ==
    LET text == JsonStringify(x)
    IN  [text EXCEPT !.m = SortSeq(text.m, LAMBDA p, q : LessKey(p.k, q.k))]

\* structural equality: same type and value; objects with the same properties
DeepEqual(x, y) ==
    IF x.t = "object" /\ y.t = "object"
    THEN {x.o[i] : i \in 1..Len(x.o)} = {y.o[i] : i \in 1..Len(y.o)}
    ELSE x = y

\* the categories of the result that hold key k
CategoriesOf(k) ==
    (IF k \in DOMAIN diffOut.added THEN {"added"} ELSE {})
    \cup (IF k \in DOMAIN diffOut.removed THEN {"removed"} ELSE {})
    \cup (IF k \in DOMAIN diffOut.modified THEN {"modified"} ELSE {})
    \cup (IF \E i \in 1..Len(diffOut.unchanged) : diffOut.unchanged[i] = k
          THEN {"unchanged"} ELSE {})

TimesUnchanged(k) ==
    Cardinality({i \in 1..Len(diffOut.unchanged) : diffOut.unchanged[i] = k})

\* every key of either state is in exactly one category, once, and no other
\* key is in any
DiffIsPartition ==
    diffOut.ran =>
        \A k \in DiffKeys :
            /\ Cardinality(CategoriesOf(k)) =
                  IF k \in DOMAIN diffIn.state1 \cup DOMAIN diffIn.state2 THEN 1 ELSE 0
            /\ TimesUnchanged(k) <= 1

\* C8: every key of a or b is in exactly one category, the one the rules
\* name: only in b -> added with b's value; only in a -> removed with a's
\* value; in both with unequal values -> modified {from, to}; in both with
\* equal values -> unchanged.  Values are equal when their canonical
\* (key-sorted) serializations are the same text.
DiffFollowsRules ==
    diffOut.ran =>
        \A k \in DiffKeys :
            LET in1 == k \in DOMAIN diffIn.state1
                in2 == k \in DOMAIN diffIn.state2
            IN  /\ ~in1 /\ ~in2 => CategoriesOf(k) = {}
                /\ ~in1 /\ in2 => /\ CategoriesOf(k) = {"added"}
                                  /\ diffOut.added[k] = diffIn.state2[k]
                /\ in1 /\ ~in2 => /\ CategoriesOf(k) = {"removed"}
                                  /\ diffOut.removed[k] = diffIn.state1[k]
                /\ in1 /\ in2 =>
                      IF CanonicalText(diffIn.state1[k]) = CanonicalText(diffIn.state2[k])
                      THEN CategoriesOf(k) = {"unchanged"} /\ TimesUnchanged(k) = 1
                      ELSE /\ CategoriesOf(k) = {"modified"}
                           /\ diffOut.modified[k] =
                                 [from |-> diffIn.state1[k], to |-> diffIn.state2[k]]

\* C9: a key present in both states is reported modified only when its two
\* values are not deep-equal; nested objects with the same keys and values
\* are equal whatever the order of their keys.
ModifiedOnlyWhenNotDeepEqual ==
    diffOut.ran =>
        \A k \in DOMAIN diffOut.modified :
            ~DeepEqual(diffIn.state1[k], diffIn.state2[k])


-----------------------------------------------------------------------------
(* The validator: validateSnapshot(snapshot, config)                         *)

\* !x
Falsy(x) ==
    \/ x.t \in {"undefined", "null", "nan"}
    \/ (x.t \in {"number", "string", "boolean"} /\ x.v = 0)

\* typeof x
Typeof(x) ==
    CASE x.t \in {"null", "array", "object"} -> "object"
      [] x.t = "nan"                         -> "number"
      [] OTHER                               -> x.t

ValFields == {"name", "age"}
\* Object.entries(config) lists the fields in the order they were declared
ValKeyOrder == <<"name", "age">>

\* values of a field of the state; Undef is a field the state does not hold
ValValues == {Undef, Null, Str(1), Num(1), Num(-1), Bool(0), Arr, Obj(0)}

\* a state that is a mapping of fields to values
StateOf(fields) == [t |-> "object", v |-> 0, o |-> <<>>, fields |-> fields]

\* what a snapshot may carry as its state: a mapping, or nothing (missing),
\* null, a number, a string, a boolean, a function, an array
ValStates ==
    {StateOf(fs) : fs \in [ValFields -> ValValues]}
    \cup {Undef, Null, Num(0), Num(1), Str(0), Str(1), Bool(0), Fn, Arr}

ValMetadata == {Undef, Null, Obj(0), Arr, Str(0), Str(1), Num(1)}

\* the type a field's configuration declares; "" when it declares none
ValTypes == {"", "string", "number", "boolean", "array", "email"}

ValConfigs ==
    UNION {[D -> [type : ValTypes, required : BOOLEAN]] : D \in SUBSET ValFields}

\* snapshot.state[field]
ReadField(state, field) ==
    IF "fields" \in DOMAIN state /\ field \in DOMAIN state.fields
    THEN state.fields[field] ELSE Undef

\* a guard that tests for a missing state alone
StateRejectedWhenFalsy(state) == Falsy(state)

\* a guard that tests the type alone: typeof null is 'object'
StateRejectedByTypeOnly(state) == Typeof(state) # "object"

\* !snapshot.state || typeof snapshot.state !== 'object'
StateRejected(state) == Falsy(state) \/ Typeof(state) # "object"

\* a switch whose number case checks the range as well
TypeMismatchWithRange(type, value) ==
    CASE type = "string"  -> Typeof(value) # "string"
      [] type = "number"  -> Typeof(value) # "number" \/ value.v < 0
      [] type = "boolean" -> Typeof(value) # "boolean"
      [] type = "array"   -> value.t # "array"
      [] OTHER            -> FALSE

\* the switch on fieldConfig.type
TypeMismatch(type, value) ==
    CASE type = "string"  -> Typeof(value) # "string"
      [] type = "number"  -> Typeof(value) # "number"
      [] type = "boolean" -> Typeof(value) # "boolean"
      [] type = "array"   -> value.t # "array"
      [] OTHER            -> FALSE

\* the errors one config entry adds
FieldErrors(state, field, fieldConfig) ==
    LET value   == ReadField(state, field)
        missing == value.t \in {"undefined", "null"}
    IN  (IF fieldConfig.required /\ missing
         THEN <<[code |-> "REQUIRED_FIELD", field |-> field]>> ELSE <<>>)
        \o (IF ~missing /\ TypeMismatch(fieldConfig.type, value)
            THEN <<[code |-> "INVALID_TYPE", field |-> field]>> ELSE <<>>)

RECURSIVE ConfigErrors(_, _, _)
\* Object.entries(config).forEach(...) over the entries from position i on
ConfigErrors(state, config, i) ==
    IF i > Len(ValKeyOrder) THEN <<>>
    ELSE (IF ValKeyOrder[i] \in DOMAIN config
          THEN FieldErrors(state, ValKeyOrder[i], config[ValKeyOrder[i]])
          ELSE <<>>)
         \o ConfigErrors(state, config, i + 1)

\* if (snapshot.metadata && typeof snapshot.metadata !== 'object')
MetadataErrors(metadata) ==
    IF ~Falsy(metadata) /\ Typeof(metadata) # "object"
    THEN <<[code |-> "INVALID_METADATA", field |-> ""]>> ELSE <<>>

\* validateSnapshot: the result object, or thrown when a property of null or
\* undefined is read
ValidateSnapshotResult(snapshot, config) ==
    IF StateRejected(snapshot.state)
    THEN [ran |-> TRUE, thrown |-> FALSE, isValid |-> FALSE,
          errors |-> <<[code |-> "INVALID_STATE", field |-> ""]>>]
    ELSE IF snapshot.state.t \in {"undefined", "null"} /\ DOMAIN config # {}
    THEN [ran |-> TRUE, thrown |-> TRUE, isValid |-> FALSE, errors |-> <<>>]
    ELSE LET errors == ConfigErrors(snapshot.state, config, 1)
                       \o MetadataErrors(snapshot.metadata)
         IN  [ran |-> TRUE, thrown |-> FALSE, isValid |-> Len(errors) = 0,
              errors |-> errors]

ValInit ==
    /\ \E state \in ValStates, metadata \in ValMetadata, config \in ValConfigs :
           valIn = [ran |-> TRUE,
                    snapshot |-> [state |-> state, metadata |-> metadata],
                    config |-> config]
    /\ valOut = NoVal
    /\ StoreIdle /\ RaceIdle /\ DiffIdle /\ ManagerIdle /\ RestIdle

ValidateSnapshot ==
    /\ ~valOut.ran
    /\ valOut' = ValidateSnapshotResult(valIn.snapshot, valIn.config)
    /\ UNCHANGED <<valIn, storeVars, raceVars, diffVars, managerVars, restVars>>

NextVal == ValidateSnapshot

SpecVal == ValInit /\ [][NextVal]_vars

\* C10: validateSnapshot never throws and always returns a result object,
\* whatever the snapshot's state and metadata are and whatever the field
\* configuration is; isValid is true exactly when the errors list is empty.
ValidateNeverThrows ==
    valOut.ran =>
        /\ ~valOut.thrown
        /\ valOut.isValid <=> (valOut.errors = <<>>)

\* a snapshot with state null and a string as metadata, validated against a
\* configuration that declares fields, came back as a result object
NullStateValidated ==
    /\ valOut.ran
    /\ valIn.snapshot.state = Null
    /\ valIn.snapshot.metadata = Str(1)
    /\ DOMAIN valIn.config # {}
    /\ ~valOut.isValid

\* the fields the result reports under one error code
ReportedFields(code) ==
    {valOut.errors[i].field :
        i \in {j \in 1..Len(valOut.errors) : valOut.errors[j].code = code}}

\* how many errors the result holds for one code and one field
TimesReported(code, field) ==
    Cardinality({i \in 1..Len(valOut.errors) :
                    valOut.errors[i] = [code |-> code, field |-> field]})

DeclaredTypes == {"string", "number", "boolean", "array"}

\* the value is of the declared type
IsOfType(value, type) ==
    CASE type = "string"  -> value.t = "string"
      [] type = "number"  -> value.t \in {"number", "nan"}
      [] type = "boolean" -> value.t = "boolean"
      [] type = "array"   -> value.t = "array"

InvalidStateShortCircuits ==
    (valOut.ran /\ valIn.snapshot.state.t \notin {"object", "array"}) =>
        /\ ~valOut.thrown
        /\ ~valOut.isValid
        /\ valOut.errors = <<[code |-> "INVALID_STATE", field |-> ""]>>

\* a number as state, a string as metadata and a configuration that requires
\* both fields: INVALID_STATE is the only error
NumberStateRejected ==
    /\ valOut.ran
    /\ valIn.snapshot.state = Num(1)
    /\ valIn.snapshot.metadata = Str(1)
    /\ valIn.config = [name |-> [type |-> "string", required |-> TRUE],
                       age |-> [type |-> "number", required |-> TRUE]]
    /\ valOut.errors = <<[code |-> "INVALID_STATE", field |-> ""]>>

-----------------------------------------------------------------------------
(* The version comparator of the migration manager and of the report       *)
(* generator.  A version string is written as the sequence of the numbers  *)
(* between its dots, which is what v.split('.').map(Number) makes of it:    *)
(* "1.10.0" is <<1, 10, 0>> and "1.0" is <<1, 0>>.                          *)

SegmentValues == {0, 1, 2, 10}
Versions == UNION {[1..n -> SegmentValues] : n \in 1..MaxSegments}

Max(a, b) == IF a > b THEN a ELSE b

\* parts[i] || 0: a missing part is undefined, which || turns into 0
PartAt(parts, i) == IF i <= Len(parts) /\ parts[i] # 0 THEN parts[i] ELSE 0

\* the characters of a version string as codes that keep their order:
\* '.' sorts before every digit
Digits(n) == IF n < 10 THEN <<n>> ELSE <<n \div 10, n % 10>>
RECURSIVE Characters(_, _)
Characters(v, i) ==
    IF i > Len(v) THEN <<>>
    ELSE (IF i > 1 THEN <<-1>> ELSE <<>>) \o Digits(v[i]) \o Characters(v, i + 1)

RECURSIVE LexicalFrom(_, _, _)
LexicalFrom(s1, s2, i) ==
    IF i > Len(s1) /\ i > Len(s2) THEN 0
    ELSE IF i > Len(s1) THEN -1
    ELSE IF i > Len(s2) THEN 1
    ELSE IF s1[i] # s2[i] THEN s1[i] - s2[i]
    ELSE LexicalFrom(s1, s2, i + 1)

\* a comparator that compares the two strings as text
CompareVersionsAsText(v1, v2) ==
    LexicalFrom(Characters(v1, 1), Characters(v2, 1), 1)

RECURSIVE CompareFrom(_, _, _)
\* the for loop of compareVersions from index i - 1 on
CompareFrom(parts1, parts2, i) ==
    IF i > Max(Len(parts1), Len(parts2)) THEN 0
    ELSE LET part1 == PartAt(parts1, i)
             part2 == PartAt(parts2, i)
         IN  IF part1 # part2 THEN part1 - part2
             ELSE CompareFrom(parts1, parts2, i + 1)

\* SnapshotMigrationManager.compareVersions
CompareVersions(v1, v2) == CompareFrom(v1, v2, 1)

\* compareVersions of the report generator
ReportCompareVersions(v1, v2) == CompareFrom(v1, v2, 1)

StoreValDiffIdle == StoreIdle /\ RaceIdle /\ DiffIdle /\ ValIdle

VerInit ==
    /\ \E v1 \in Versions, v2 \in Versions :
           verIn = [ran |-> TRUE, v1 |-> v1, v2 |-> v2]
    /\ verOut = NoVer
    /\ StoreValDiffIdle /\ RestIdle /\ MigIdle

CompareTheVersions ==
    /\ ~verOut.ran
    /\ verOut' = [ran |-> TRUE,
                  manager |-> CompareVersions(verIn.v1, verIn.v2),
                  report |-> ReportCompareVersions(verIn.v1, verIn.v2)]
    /\ UNCHANGED <<verIn, storeVars, raceVars, diffVars, valVars, migVars, restVars>>

NextVer == CompareTheVersions

SpecVer == VerInit /\ [][NextVer]_vars

\* the version with its missing segments filled with 0
Padded(v) == [i \in 1..MaxSegments |-> IF i <= Len(v) THEN v[i] ELSE 0]

Sign(n) == IF n < 0 THEN -1 ELSE IF n > 0 THEN 1 ELSE 0

\* C13: both version comparators order dotted versions by their numeric
\* segments from left to right, a missing segment counting as 0: the result
\* is 0 exactly when the padded segments are all equal, otherwise its sign is
\* decided by the first segment that differs; the order is antisymmetric and
\* transitive, and "1.2.0" < "1.10.0" < "2.0.0".
VersionOrderIsNumeric ==
    verOut.ran =>
        LET v1 == verIn.v1
            v2 == verIn.v2
            differ == {i \in 1..MaxSegments : Padded(v1)[i] # Padded(v2)[i]}
            first  == CHOOSE i \in differ : \A j \in differ : i <= j
        IN  /\ verOut.report = verOut.manager
            /\ (verOut.manager = 0) <=> (Padded(v1) = Padded(v2))
            /\ differ # {} =>
                   Sign(verOut.manager) = Sign(Padded(v1)[first] - Padded(v2)[first])
            /\ Sign(CompareVersions(v2, v1)) = -Sign(verOut.manager)
            /\ Sign(ReportCompareVersions(v2, v1)) = -Sign(verOut.report)
            /\ \A v3 \in Versions :
                   (verOut.manager <= 0 /\ CompareVersions(v2, v3) <= 0)
                       => CompareVersions(v1, v3) <= 0
            /\ (v1 = <<1, 2, 0>> /\ v2 = <<1, 10, 0>>) => verOut.manager < 0
            /\ (v1 = <<1, 10, 0>> /\ v2 = <<2, 0, 0>>) => verOut.manager < 0

\* "1.2.0" was compared with "1.10.0" and came out smaller
TwoBeforeTen ==
    /\ verOut.ran
    /\ verIn.v1 = <<1, 2, 0>>
    /\ verIn.v2 = <<1, 10, 0>>
    /\ verOut.manager < 0
    /\ verOut.report < 0

-----------------------------------------------------------------------------
(* The migration manager (SnapshotMigrationManager)                         *)

\* what calling a migration's up or down does: return a value, return a
\* deferred value that resolves, throw, or return a deferred value that rejects
MigKinds == {"sync", "async", "throws", "rejects"}

\* what a migration's functions make of a state:
\*   rename  up renames a field and down renames it back
\*   drop    up removes a field, down cannot bring it back; a state without
\*           fields passes through both untouched
\*   stamp   up adds a field that down leaves in place
MigEffects == {"rename", "drop", "stamp"}

MigrationOf(description, version, up, down, effect) ==
    [description |-> description, version |-> version, up |-> up,
     down |-> down, effect |-> effect]

\* the migrations a caller may register
Catalog ==
    {MigrationOf("rename field", <<1, 2, 0>>, "async", "async", "rename"),
     MigrationOf("drop field", <<1, 10, 0>>, "sync", "sync", "drop"),
     MigrationOf("split name", <<2, 0, 0>>, "async", "sync", "rename"),
     MigrationOf("broken", <<2>>, "throws", "rejects", "rename"),
     MigrationOf("stamp", <<3>>, "sync", "sync", "stamp")}

\* {} , a form's state, and a Promise object
EmptyState    == [base |-> "empty", ops |-> <<>>]
FormState     == [base |-> "form", ops |-> <<>>]
PromiseObject == [base |-> "promise", ops |-> <<>>]

\* the value holds no field of its own
HasNoFields(s) == s.ops = <<>> /\ s.base \in {"empty", "promise"}

\* the state after one more function was applied to it
Then(s, m, direction) ==
    [s EXCEPT !.ops = Append(@, [m |-> m.description, d |-> direction])]

\* migration.up(state), when it returns
Up(m, s) ==
    IF m.effect = "drop" /\ HasNoFields(s) THEN s ELSE Then(s, m, "up")

\* migration.down(state), when it returns
Down(m, s) ==
    IF m.effect = "rename" /\ s.ops # <<>>
          /\ s.ops[Len(s.ops)] = [m |-> m.description, d |-> "up"]
    THEN [s EXCEPT !.ops = SubSeq(@, 1, Len(@) - 1)]
    ELSE IF m.effect = "drop" /\ HasNoFields(s) THEN s
    ELSE Then(s, m, "down")

\* JSON.stringify of a state, or of a Promise, which has no field to write
Serialized(x) == IF HasNoFields(x) THEN EmptyState ELSE x

\* Array.prototype.sort with (a, b) => sign * compareVersions(a.version,
\* b.version): the sort is stable, so it is the insertion of each element after
\* the elements that do not come after it
InsertByVersion(sorted, m, sign) ==
    LET after == {i \in 1..Len(sorted) :
                     sign * CompareVersions(sorted[i].version, m.version) > 0}
        at    == IF after = {} THEN Len(sorted) + 1
                 ELSE CHOOSE i \in after : \A j \in after : i <= j
    IN  SubSeq(sorted, 1, at - 1) \o <<m>> \o SubSeq(sorted, at, Len(sorted))

RECURSIVE SortPrefix(_, _, _)
SortPrefix(list, n, sign) ==
    IF n = 0 THEN <<>>
    ELSE InsertByVersion(SortPrefix(list, n - 1, sign), list[n], sign)

SortByVersion(list, sign) == SortPrefix(list, Len(list), sign)

\* a registration that leaves the new migration at the end of the list
AddMigrationAtEnd(list, migration) == Append(list, migration)

\* addMigration: push, then sort
AddMigrationResult(list, migration) ==
    SortByVersion(Append(list, migration), 1)

\* a filter that takes the migration of the current version along
RelevantFromCurrent(list, currentVersion, targetVersion) ==
    LET isUpgrade == CompareVersions(targetVersion, currentVersion) > 0
    IN  SortByVersion(
            SelectSeq(list, LAMBDA m :
                IF isUpgrade
                THEN /\ CompareVersions(m.version, currentVersion) >= 0
                     /\ CompareVersions(m.version, targetVersion) <= 0
                ELSE /\ CompareVersions(m.version, currentVersion) <= 0
                     /\ CompareVersions(m.version, targetVersion) > 0),
            IF isUpgrade THEN 1 ELSE -1)

\* a chain that is left in ascending order for a downgrade too
RelevantAscending(list, currentVersion, targetVersion) ==
    LET isUpgrade == CompareVersions(targetVersion, currentVersion) > 0
    IN  SortByVersion(
            SelectSeq(list, LAMBDA m :
                IF isUpgrade
                THEN /\ CompareVersions(m.version, currentVersion) > 0
                     /\ CompareVersions(m.version, targetVersion) <= 0
                ELSE /\ CompareVersions(m.version, currentVersion) <= 0
                     /\ CompareVersions(m.version, targetVersion) > 0),
            1)

\* relevantMigrations: the filter on the version range, then the sort in the
\* direction of travel
RelevantMigrations(list, currentVersion, targetVersion) ==
    LET isUpgrade == CompareVersions(targetVersion, currentVersion) > 0
    IN  SortByVersion(
            SelectSeq(list, LAMBDA m :
                IF isUpgrade
                THEN /\ CompareVersions(m.version, currentVersion) > 0
                     /\ CompareVersions(m.version, targetVersion) <= 0
                ELSE /\ CompareVersions(m.version, currentVersion) <= 0
                     /\ CompareVersions(m.version, targetVersion) > 0),
            IF isUpgrade THEN 1 ELSE -1)

\* the entry executeMigration appends to metadata.migrations
MigrationEntry(migration, direction, t) ==
    [version |-> migration.version, direction |-> direction, timestamp |-> t,
     description |-> migration.description]

\* { ...snapshot, state: newState, version: migration.version, metadata: ... }
Migrated(snapshot, migration, direction, t) ==
    [snapshot EXCEPT
        !.state = IF direction = "up" THEN Up(migration, @)
                  ELSE Down(migration, @),
        !.version = migration.version,
        !.metadata = [present |-> TRUE, auto |-> @.auto, listed |-> TRUE,
                      migrations |-> Append(@.migrations,
                                        MigrationEntry(migration, direction, t))]]

\* a step that logs the failure of its function and hands the snapshot on
ExecuteMigrationLenient(snapshot, migration, direction, t) ==
    LET migrateFn == IF direction = "up" THEN migration.up ELSE migration.down
    IN  [thrown |-> FALSE, error |-> NoError,
         value |-> IF migrateFn \in {"throws", "rejects"} THEN snapshot
                   ELSE Migrated(snapshot, migration, direction, t)]

\* executeMigration, from the point where the function's result is awaited: the
\* new snapshot, or the SnapshotMigrationError of the catch block
ExecuteMigration(snapshot, migration, direction, t) ==
    LET migrateFn == IF direction = "up" THEN migration.up ELSE migration.down
    IN  IF migrateFn \in {"throws", "rejects"}
        THEN [thrown |-> TRUE, value |-> NoMigSnapshot,
              error |-> [name |-> "SnapshotMigrationError",
                         version |-> migration.version,
                         snapshot |-> snapshot]]
        ELSE [thrown |-> FALSE, error |-> NoError,
              value |-> Migrated(snapshot, migration, direction, t)]

\* a return that writes the target version into the snapshot
AtTargetRewritten(snapshot, targetVersion) ==
    [snapshot EXCEPT !.version = targetVersion]

\* return currentSnapshot, when the versions compare equal
AtTarget(snapshot, targetVersion) == snapshot

\* migrateToVersion up to its loop: the call as it stands when the chain of
\* migrations is known.  A call that has nothing to run has returned.
MigrateToVersionCall(list, snapshot, targetVersion, calls) ==
    LET currentVersion == snapshot.version
        same  == CompareVersions(currentVersion, targetVersion) = 0
        chain == IF same THEN <<>>
                 ELSE RelevantMigrations(list, currentVersion, targetVersion)
        begun == [NoCall EXCEPT
                     !.calls = calls + 1, !.passed = snapshot,
                     !.input = snapshot, !.target = targetVersion,
                     !.direction =
                         IF CompareVersions(targetVersion, currentVersion) > 0
                         THEN "up" ELSE "down",
                     !.chain = chain, !.current = snapshot]
    IN  IF same
        THEN [begun EXCEPT !.phase = "returned",
                           !.result = AtTarget(snapshot, targetVersion)]
        ELSE IF chain = <<>>
        THEN [begun EXCEPT !.phase = "returned", !.result = snapshot]
        ELSE [begun EXCEPT !.phase = "running"]

\* a loop that starts the next step without waiting for the one before
ReadyAtOnce(c) == TRUE

\* the await of the loop: the next step starts when every step that was
\* started has handed back its snapshot
ReadyForNext(c) == c.settled = Len(c.frames)

\* the loop calls executeMigration, which calls the migration's function on
\* the state of the current snapshot
Invoke(c) ==
    [c EXCEPT !.frames = Append(@, [migration |-> c.chain[Len(c.frames) + 1],
                                    snapshot |-> c.current])]

\* the loop resumes with what executeMigration made of the oldest step that
\* is still waiting; t is the reading of Date.now()
Resume(c, t) ==
    LET frame == c.frames[c.settled + 1]
        step  == ExecuteMigration(frame.snapshot, frame.migration, c.direction, t)
    IN  IF step.thrown
        THEN [c EXCEPT !.phase = "failed", !.error = step.error]
        ELSE IF c.settled + 1 = Len(c.chain)
        THEN [c EXCEPT !.phase = "returned", !.settled = @ + 1,
                       !.current = step.value, !.result = step.value]
        ELSE [c EXCEPT !.settled = @ + 1, !.current = step.value]

\* the versions of the snapshots handed to the manager, and the targets asked for
SnapshotVersions == {<<1, 0>>, <<1, 10>>, <<2, 0, 0>>, <<3, 1>>}
TargetVersions   == {<<1>>, <<1, 2, 0>>, <<2, 0, 0>>, <<3>>}

MigMetadata ==
    {NoMigMetadata,
     [present |-> TRUE, auto |-> TRUE, listed |-> FALSE, migrations |-> <<>>]}

MigSnapshots ==
    {[id |-> 1, timestamp |-> 0, state |-> FormState, version |-> v,
      metadata |-> md] : v \in SnapshotVersions, md \in MigMetadata}

\* a first call is given a stored snapshot, a later one what the call before
\* it returned
CallInputs == IF call.calls = 0 THEN MigSnapshots ELSE {call.result}

\* the call with the snapshot the first call of the sequence was given
From(c, snapshot) ==
    [c EXCEPT !.origin = IF call.calls = 0 THEN snapshot ELSE call.origin]

\* everything but the manager and the clock
aroundManager == <<storage, opts, nextId, last, raceVars, diffVars, valVars, verVars>>

MigInit ==
    /\ \E strict \in BOOLEAN : options = [strict |-> strict]
    /\ migrations = <<>>
    /\ registered = {}
    /\ call = NoCall
    /\ checked = NoCheck
    /\ StoreValDiffIdle /\ RestIdle /\ VerIdle

AddMigration ==
    /\ call.phase = "idle"
    /\ \E migration \in Catalog \ registered :
           /\ migrations' = AddMigrationResult(migrations, migration)
           /\ registered' = registered \cup {migration}
    /\ UNCHANGED <<options, call, checked, now, aroundManager, restVars>>

MigrateToVersion ==
    /\ call.phase \in {"idle", "returned"}
    /\ call.calls < MaxCalls
    /\ \E snapshot \in CallInputs, targetVersion \in TargetVersions :
           call' = From(MigrateToVersionCall(migrations, snapshot, targetVersion,
                                             call.calls), snapshot)
    /\ UNCHANGED <<options, migrations, registered, checked, now, aroundManager, restVars>>

MigrateToLatest ==
    /\ call.phase \in {"idle", "returned"}
    /\ call.calls < MaxCalls
    /\ \E snapshot \in CallInputs :
           call' = From(IF migrations = <<>>
                        THEN [NoCall EXCEPT !.phase = "returned",
                                            !.calls = call.calls + 1,
                                            !.passed = snapshot, !.input = snapshot,
                                            !.current = snapshot, !.result = snapshot]
                        ELSE MigrateToVersionCall(migrations, snapshot,
                                 migrations[Len(migrations)].version, call.calls),
                        snapshot)
    /\ UNCHANGED <<options, migrations, registered, checked, now, aroundManager, restVars>>

InvokeStep ==
    /\ call.phase = "running"
    /\ ReadyForNext(call)
    /\ Len(call.frames) < Len(call.chain)
    /\ call' = Invoke(call)
    /\ UNCHANGED <<options, migrations, registered, checked, now, aroundManager, restVars>>

ResumeStep ==
    /\ call.phase = "running"
    /\ call.settled < Len(call.frames)
    /\ \E t \in ClockReadings :
           /\ call' = Resume(call, t)
           /\ now' = IF call'.phase = "failed" THEN now ELSE t
    /\ UNCHANGED <<options, migrations, registered, checked, aroundManager, restVars>>

NextMig ==
    \/ AddMigration
    \/ MigrateToVersion
    \/ MigrateToLatest
    \/ InvokeStep
    \/ ResumeStep

SpecMig == MigInit /\ [][NextMig]_vars

\* the migrations the call has invoked so far, in the order it invoked them
Applied == [k \in 1..Len(call.frames) |-> call.frames[k].migration]

\* the snapshot the call held after its k-th step
AfterStep(k) ==
    IF k < Len(call.frames) THEN call.frames[k + 1].snapshot ELSE call.current

\* what the k-th step's function returns for the state it was given
Produced(k) ==
    IF call.direction = "up"
    THEN Up(call.frames[k].migration, call.frames[k].snapshot.state)
    ELSE Down(call.frames[k].migration, call.frames[k].snapshot.state)

\* the entry of the k-th step but for its timestamp, which is a clock reading
EntryOfStep(entry, k) ==
    /\ entry.version = Applied[k].version
    /\ entry.direction = call.direction
    /\ entry.description = Applied[k].description
    /\ entry.timestamp \in 0..MaxTime

\* migrateToVersion was called: migrateToLatest on a manager without
\* migrations returns before it calls it
Called == call.calls > 0 /\ call.target # <<>>

\* C14: after any sequence of addMigration calls, in any order, the migration
\* list is sorted ascending under the version comparator and holds every
\* registered migration exactly once.
MigrationsSortedAndComplete ==
    /\ \A i \in 1..Len(migrations) : \A j \in i..Len(migrations) :
           CompareVersions(migrations[i].version, migrations[j].version) <= 0
    /\ {migrations[i] : i \in 1..Len(migrations)} = registered
    /\ Len(migrations) = Cardinality(registered)

\* all five migrations are registered: "1.2.0" stands before "1.10.0", and of
\* the two migrations of version 2 the one registered first stands first
AllRegisteredInOrder ==
    /\ registered = Catalog
    /\ [i \in 1..Len(migrations) |-> migrations[i].description]
           = <<"rename field", "drop field", "broken", "split name", "stamp">>

\* C15: migrateToVersion on a snapshot whose version compares equal to the
\* target returns the input as it is: no migration function is run, and the
\* state, the version and the metadata, the migrations list in it included,
\* are those of the input.
EqualVersionReturnsInput ==
    (Called /\ CompareVersions(call.passed.version, call.target) = 0) =>
        /\ call.phase = "returned"
        /\ call.frames = <<>>
        /\ call.result = call.passed
        /\ call.input = call.passed

\* a snapshot of version "1.0" was migrated to "1" by a manager that holds
\* migrations
OneDotZeroToOne ==
    /\ call.phase = "returned"
    /\ call.passed.version = <<1, 0>>
    /\ call.target = <<1>>
    /\ call.passed.metadata.present
    /\ registered = Catalog
    /\ call.result.version = <<1, 0>>

\* the steps of a call that returned: each step made its snapshot from the
\* one before it, with the function's result as state, the migration's version
\* as version and one more entry in metadata.migrations
StepsThreaded ==
    /\ Len(call.frames) > 0 => call.frames[1].snapshot = call.passed
    /\ \A k \in 1..Len(call.frames) :
           LET before == call.frames[k].snapshot
               after  == AfterStep(k)
           IN  /\ after.state = Produced(k)
               /\ after.version = Applied[k].version
               /\ after.metadata.present /\ after.metadata.listed
               /\ after.metadata.auto = before.metadata.auto
               /\ Len(after.metadata.migrations) = Len(before.metadata.migrations) + 1
               /\ SubSeq(after.metadata.migrations, 1, Len(before.metadata.migrations))
                      = before.metadata.migrations
               /\ EntryOfStep(after.metadata.migrations[Len(after.metadata.migrations)], k)
               /\ after.id = before.id /\ after.timestamp = before.timestamp

\* C16: an upgrade runs the up of exactly the registered migrations whose
\* version is strictly after the current one and at or before the target,
\* each once, in ascending version order, threading the state through; the
\* returned snapshot has the version of the last migration applied, and its
\* metadata.migrations is the input's list followed by one entry {version,
\* direction up, timestamp, description} per applied migration, in order.
UpgradeRunsItsChain ==
    (call.phase = "returned" /\ Called
        /\ CompareVersions(call.target, call.passed.version) > 0) =>
        LET inRange == {m \in registered :
                           /\ CompareVersions(m.version, call.passed.version) > 0
                           /\ CompareVersions(m.version, call.target) <= 0}
            n == Len(call.frames)
        IN  /\ call.direction = "up"
            /\ {Applied[k] : k \in 1..n} = inRange
            /\ n = Cardinality(inRange)
            /\ \A k \in 1..n : \A l \in k..n :
                   CompareVersions(Applied[k].version, Applied[l].version) <= 0
            /\ call.settled = n
            /\ StepsThreaded
            /\ call.result = call.current
            /\ n = 0 => call.result = call.passed
            /\ n > 0 => call.result.version = Applied[n].version
            /\ Len(call.result.metadata.migrations)
                   = Len(call.passed.metadata.migrations) + n

\* a form's state at version "1.0" was taken to "2.0.0" by a manager that
\* also holds the migration to "3": the three migrations up to "2.0.0" ran,
\* the last of them the split of the name
UpgradedToTwo ==
    /\ call.phase = "returned"
    /\ call.calls = 1
    /\ registered = Catalog \ {MigrationOf("broken", <<2>>, "throws", "rejects", "rename")}
    /\ call.passed.version = <<1, 0>>
    /\ call.target = <<2, 0, 0>>
    /\ call.result.version = <<2, 0, 0>>
    /\ call.result.state.ops = <<[m |-> "rename field", d |-> "up"],
                                 [m |-> "drop field", d |-> "up"],
                                 [m |-> "split name", d |-> "up"]>>
    /\ Len(call.result.metadata.migrations) = 3

\* C17: a downgrade runs the down of exactly the registered migrations whose
\* version is at or before the current one and strictly after the target,
\* each once, in descending version order; each application sets the
\* snapshot's version to that migration's version and appends an entry
\* {version, direction down, timestamp, description}.
DowngradeRunsItsChain ==
    (call.phase = "returned" /\ Called
        /\ CompareVersions(call.target, call.passed.version) < 0) =>
        LET inRange == {m \in registered :
                           /\ CompareVersions(m.version, call.passed.version) <= 0
                           /\ CompareVersions(m.version, call.target) > 0}
            n == Len(call.frames)
        IN  /\ call.direction = "down"
            /\ {Applied[k] : k \in 1..n} = inRange
            /\ n = Cardinality(inRange)
            /\ \A k \in 1..n : \A l \in k..n :
                   CompareVersions(Applied[k].version, Applied[l].version) >= 0
            /\ call.settled = n
            /\ StepsThreaded
            /\ call.result = call.current

\* a snapshot of version "3.1" was taken down to "1": the four downs ran from
\* "3" to "1.2.0", and the snapshot came back with version "1.2.0"
DowngradedToOne ==
    /\ call.phase = "returned"
    /\ call.calls = 1
    /\ registered = Catalog \ {MigrationOf("broken", <<2>>, "throws", "rejects", "rename")}
    /\ call.passed.version = <<3, 1>>
    /\ call.target = <<1>>
    /\ [k \in 1..Len(call.frames) |-> Applied[k].description]
           = <<"stamp", "split name", "drop field", "rename field">>
    /\ call.result.version = <<1, 2, 0>>
    /\ \A i \in 1..4 : call.result.metadata.migrations[i].direction = "down"

\* the function the k-th step called throws, or its deferred result rejects
StepFails(k) ==
    LET migration == call.frames[k].migration
    IN  (IF call.direction = "up" THEN migration.up ELSE migration.down)
            \in {"throws", "rejects"}

\* C18: if the up or down of a migration throws, or its deferred result
\* rejects, migrateToVersion fails with a SnapshotMigrationError that carries
\* the failing migration's version and the snapshot that was being migrated;
\* no later migration is run, no snapshot is returned, and the input snapshot
\* is as it was passed.
FailureAbortsTheChain ==
    Called =>
        /\ \A k \in 1..call.settled : ~StepFails(k)
        /\ call.phase = "returned" => \A k \in 1..Len(call.frames) : ~StepFails(k)
        /\ call.phase = "failed" =>
               LET k == call.settled + 1
               IN  /\ Len(call.frames) = k
                   /\ StepFails(k)
                   /\ call.error.name = "SnapshotMigrationError"
                   /\ call.error.version = call.frames[k].migration.version
                   /\ call.error.snapshot = call.frames[k].snapshot
                   /\ call.error.snapshot = call.current
                   /\ call.result = NoMigSnapshot
                   /\ call.input = call.passed

\* an upgrade from "1.10" to "3" failed at its second step, the migration to
\* "2" whose up throws: the error holds the snapshot as the first step left it,
\* and the migration to "3" was not run
FailedAtSecondStep ==
    /\ call.phase = "failed"
    /\ registered = Catalog
    /\ call.passed.version = <<1, 10>>
    /\ call.target = <<3>>
    /\ call.settled = 1
    /\ call.error.version = <<2>>
    /\ call.error.snapshot.version = <<2, 0, 0>>
    /\ call.passed.state = FormState
    /\ Len(call.chain) = 3
    /\ Len(call.frames) = 2

\* C19: within one migrateToVersion call the steps run strictly one after
\* another, also when their functions are asynchronous: the function of a
\* step is not started before the deferred result of the step before it has
\* resolved, and it receives the state that step produced.
StepsRunOneAfterAnother ==
    Called =>
        /\ Len(call.frames) <= call.settled + 1
        /\ \A k \in 1..(Len(call.frames) - 1) :
               call.frames[k + 1].snapshot.state = Produced(k)

\* the second of two asynchronous ups was started, after the first had
\* resolved, on the state the first produced
SecondAsyncStepStarted ==
    /\ call.phase = "running"
    /\ call.direction = "up"
    /\ Len(call.frames) = 2
    /\ call.settled = 1
    /\ call.frames[1].migration.up = "async"
    /\ call.frames[2].migration.up = "async"
    /\ call.frames[2].snapshot.state.ops = <<[m |-> "rename field", d |-> "up"]>>

-----------------------------------------------------------------------------
(* validateMigrations, on a manager whose migrations were registered        *)

RECURSIVE OrderErrors(_, _)
\* the reduce that starts from '0.0.0': the errors of the migrations from
\* position i on, each compared with the version before it
OrderErrors(list, i) ==
    IF i > Len(list) THEN <<>>
    ELSE LET prevVersion == IF i = 1 THEN <<0, 0, 0>> ELSE list[i - 1].version
         IN  (IF prevVersion # <<>>
                    /\ CompareVersions(list[i].version, prevVersion) <= 0
              THEN <<[code |-> "order", version |-> list[i].version]>>
              ELSE <<>>)
             \o OrderErrors(list, i + 1)

\* what calling a function without awaiting it gives: its value, or a Promise
Unawaited(kind, value) == IF kind = "sync" THEN value ELSE PromiseObject

\* the try block of the forEach, for one migration: up and down are called on
\* {} and are not awaited
ReversibilityErrors(migration) ==
    IF migration.up = "throws" \/ migration.down = "throws"
    THEN <<[code |-> "failed", version |-> migration.version]>>
    ELSE LET testState  == EmptyState
             upResult   == Unawaited(migration.up, Up(migration, testState))
             downResult == Unawaited(migration.down, Down(migration, upResult))
         IN  IF Serialized(testState) # Serialized(downResult)
             THEN <<[code |-> "irreversible", version |-> migration.version]>>
             ELSE <<>>

RECURSIVE AllReversibilityErrors(_, _)
\* this.migrations.forEach(...) from position i on
AllReversibilityErrors(list, i) ==
    IF i > Len(list) THEN <<>>
    ELSE ReversibilityErrors(list[i]) \o AllReversibilityErrors(list, i + 1)

\* a check that returns at once in strict mode instead of in lenient mode
ValidateWhenLenient(o, list) ==
    IF o.strict THEN [ran |-> TRUE, thrown |-> FALSE, errors |-> <<>>]
    ELSE LET errors == OrderErrors(list, 1) \o AllReversibilityErrors(list, 1)
         IN  [ran |-> TRUE, thrown |-> errors # <<>>, errors |-> errors]

\* validateMigrations: thrown when the list of errors is not empty
ValidateMigrationsResult(o, list) ==
    IF ~o.strict THEN [ran |-> TRUE, thrown |-> FALSE, errors |-> <<>>]
    ELSE LET errors == OrderErrors(list, 1) \o AllReversibilityErrors(list, 1)
         IN  [ran |-> TRUE, thrown |-> errors # <<>>, errors |-> errors]

RECURSIVE Registering(_, _)
\* the list after addMigration was called for the first n migrations of order
Registering(order, n) ==
    IF n = 0 THEN <<>>
    ELSE AddMigrationResult(Registering(order, n - 1), order[n])

\* the orders in which migrations of the catalog can be registered
Orders ==
    {order \in UNION {[1..n -> Catalog] : n \in 0..Cardinality(Catalog)} :
        \A i \in DOMAIN order : \A j \in DOMAIN order :
            order[i] = order[j] => i = j}

CheckInit ==
    /\ \E strict \in BOOLEAN : options = [strict |-> strict]
    /\ \E order \in Orders :
           /\ migrations = Registering(order, Len(order))
           /\ registered = {order[i] : i \in DOMAIN order}
    /\ call = NoCall
    /\ checked = NoCheck
    /\ StoreValDiffIdle /\ RestIdle /\ VerIdle

ValidateMigrations ==
    /\ ~checked.ran
    /\ checked' = ValidateMigrationsResult(options, migrations)
    /\ UNCHANGED <<options, migrations, registered, call, now, aroundManager, restVars>>

NextCheck == ValidateMigrations

SpecCheck == CheckInit /\ [][NextCheck]_vars

\* the states a migration can be asked to take up and down again
RoundTripStates == {EmptyState, FormState}

\* m.down(m.up(s)) is not s, for a migration whose functions return
LosesState(m, s) ==
    /\ m.up \in {"sync", "async"}
    /\ m.down \in {"sync", "async"}
    /\ Down(m, Up(m, s)) # s

NotReversibleOnEmpty(m) ==
    \/ m.up \in {"throws", "rejects"}
    \/ m.down \in {"throws", "rejects"}
    \/ Down(m, Up(m, EmptyState)) # EmptyState

\* the versions the errors of one kind name, in the order of the errors
VersionsNamed(errors, codes) ==
    LET of == SelectSeq(errors, LAMBDA e : e.code \in codes)
    IN  [i \in 1..Len(of) |-> of[i].version]

\* the versions of the migrations at the positions that satisfy Test, in the
\* order of the list
VersionsWhere(list, Test(_)) ==
    LET at == SelectSeq([i \in 1..Len(list) |-> i], Test)
    IN  [i \in 1..Len(at) |-> list[at[i]].version]

\* C21: in strict mode validateMigrations collects every violation before it
\* fails: one continuity error for each adjacent pair of the sorted list whose
\* versions are not strictly increasing, one reversibility error for each
\* migration whose up-then-down on the empty state does not reproduce it or
\* throws; it throws one aggregate error that lists them all, returns normally
\* when there is none, and does nothing when strict mode is off.
EveryViolationIsCollected ==
    checked.ran =>
        IF ~options.strict
        THEN ~checked.thrown /\ checked.errors = <<>>
        ELSE /\ VersionsNamed(checked.errors, {"order"})
                    = VersionsWhere(migrations, LAMBDA i :
                          /\ i > 1
                          /\ CompareVersions(migrations[i].version,
                                             migrations[i - 1].version) <= 0)
             /\ VersionsNamed(checked.errors, {"failed", "irreversible"})
                    = VersionsWhere(migrations, LAMBDA i :
                          NotReversibleOnEmpty(migrations[i]))
             /\ checked.thrown <=> (checked.errors # <<>>)

-----------------------------------------------------------------------------
(* The report generator (generateReport)                                    *)

\* three states of a form with the fields b, c, d, e.  From the first to the
\* second b, c and d change and e becomes another object with the same
\* content; from the second to the third e alone changes.
ReportState0 == [b |-> Num(1), c |-> Num(1), d |-> Num(1), e |-> Obj(1)]
ReportState3 == [b |-> Num(2), c |-> Num(2), d |-> Num(2), e |-> Obj(2)]
ReportState4 == [b |-> Num(2), c |-> Num(2), d |-> Num(2), e |-> Num(3)]
ReportStates == {ReportState0, ReportState3, ReportState4}

ReportVersions == {<<1, 2>>, <<1, 10>>}
ReportStamps   == 1..MaxStamp

\* the snapshots handed to generateReport: three of them, the id of each its
\* position in the list
ReportLists ==
    {[i \in 1..3 |-> [id |-> i, timestamp |-> ts[i], version |-> vs[i],
                      state |-> ss[i]]] :
        ts \in [1..3 -> ReportStamps], vs \in [1..3 -> ReportVersions],
        ss \in [1..3 -> ReportStates]}

\* config: no field marked, or b marked important
ReportConfigs ==
    {[f \in {} |-> [important |-> FALSE]], [b |-> [important |-> TRUE]]}

NotGiven == [given |-> FALSE, value |-> <<>>]
NoDate   == [given |-> FALSE, value |-> 0]
Given(value) == [given |-> TRUE, value |-> value]

\* options.filters: each filter left out or given
ReportFilters ==
    [fromDate      : {NoDate, Given(2)},
     toDate        : {NoDate, Given(1)},
     versions      : {NotGiven, Given(<<>>), Given(<< <<1, 10>> >>)},
     fields        : {NotGiven, Given(<<"b", "e">>)},
     onlyImportant : BOOLEAN]

\* [...snapshots].sort((a, b) => a.timestamp - b.timestamp): the sort is
\* stable, so each snapshot goes after those that are not later than it
InsertByTimestamp(sorted, s) ==
    LET after == {i \in 1..Len(sorted) : sorted[i].timestamp - s.timestamp > 0}
        at    == IF after = {} THEN Len(sorted) + 1
                 ELSE CHOOSE i \in after : \A j \in after : i <= j
    IN  SubSeq(sorted, 1, at - 1) \o <<s>> \o SubSeq(sorted, at, Len(sorted))

RECURSIVE SortedPrefix(_, _)
SortedPrefix(list, n) ==
    IF n = 0 THEN <<>> ELSE InsertByTimestamp(SortedPrefix(list, n - 1), list[n])

\* array.includes(x)
Includes(array, x) == \E i \in 1..Len(array) : array[i] = x

\* a date range whose bounds are exclusive
FilteredSnapshotsExclusive(snapshots, filters) ==
    LET sorted == SortedPrefix(snapshots, Len(snapshots))
        from == IF filters.fromDate.given
                THEN SelectSeq(sorted, LAMBDA s : s.timestamp > filters.fromDate.value)
                ELSE sorted
        to   == IF filters.toDate.given
                THEN SelectSeq(from, LAMBDA s : s.timestamp < filters.toDate.value)
                ELSE from
    IN  IF filters.versions.given /\ Len(filters.versions.value) > 0
        THEN SelectSeq(to, LAMBDA s : Includes(filters.versions.value, s.version))
        ELSE to

\* filteredSnapshots: the sorted copy, then the three filters
FilteredSnapshots(snapshots, filters) ==
    LET sorted == SortedPrefix(snapshots, Len(snapshots))
        from == IF filters.fromDate.given
                THEN SelectSeq(sorted, LAMBDA s : s.timestamp >= filters.fromDate.value)
                ELSE sorted
        to   == IF filters.toDate.given
                THEN SelectSeq(from, LAMBDA s : s.timestamp <= filters.toDate.value)
                ELSE from
    IN  IF filters.versions.given /\ Len(filters.versions.value) > 0
        THEN SelectSeq(to, LAMBDA s : Includes(filters.versions.value, s.version))
        ELSE to

\* state[field], undefined for a field the state does not hold
FieldOf(state, field) == IF field \in DOMAIN state THEN state[field] ELSE Undef

\* the changes object filled by the forEach over Object.keys(snapshot.state)
ReportChanges(snapshot, previousSnapshot, filters) ==
    [f \in {k \in DOMAIN snapshot.state :
               /\ ~filters.fields.given \/ Includes(filters.fields.value, k)
               /\ SerializedDiffer(snapshot.state[k],
                                   FieldOf(previousSnapshot.state, k))} |->
        [from |-> FieldOf(previousSnapshot.state, f), to |-> snapshot.state[f]]]

\* importantChangeCount
ImportantChangeCount(changes, config) ==
    Cardinality({f \in DOMAIN changes : f \in DOMAIN config /\ config[f].important})

\* a classification that calls three changed fields medium already
ImportanceFromThree(changes, config) ==
    IF ImportantChangeCount(changes, config) > 0 THEN "high"
    ELSE IF Cardinality(DOMAIN changes) >= 3 THEN "medium"
    ELSE "low"

\* importance: high, medium above three changed fields, low
Importance(changes, config) ==
    IF ImportantChangeCount(changes, config) > 0 THEN "high"
    ELSE IF Cardinality(DOMAIN changes) > 3 THEN "medium"
    ELSE "low"

NoChanges == [f \in {} |-> [from |-> Undef, to |-> Undef]]

\* the element the map makes of filteredSnapshots[index]; changes is undefined
\* (changed FALSE) when no field changed
Processed(filtered, index, config, filters) ==
    LET changes == IF index > 1
                   THEN ReportChanges(filtered[index], filtered[index - 1], filters)
                   ELSE NoChanges
    IN  [snapshot |-> filtered[index],
         changed |-> DOMAIN changes # {},
         changes |-> changes,
         importance |-> Importance(changes, config)]

\* the versions of the processed snapshots without repetitions, in the order
\* a Set keeps them: that of their first occurrence
RECURSIVE DistinctVersions(_, _)
DistinctVersions(final, n) ==
    IF n = 0 THEN <<>>
    ELSE LET before == DistinctVersions(final, n - 1)
             v == final[n].snapshot.version
         IN  IF \E i \in 1..Len(before) : before[i] = v THEN before
             ELSE Append(before, v)

\* one step of versions.sort(compareVersions), the sort being stable
InsertVersion(sorted, v) ==
    LET after == {i \in 1..Len(sorted) : ReportCompareVersions(sorted[i], v) > 0}
        at    == IF after = {} THEN Len(sorted) + 1
                 ELSE CHOOSE i \in after : \A j \in after : i <= j
    IN  SubSeq(sorted, 1, at - 1) \o <<v>> \o SubSeq(sorted, at, Len(sorted))

RECURSIVE SortVersions(_, _)
SortVersions(versions, n) ==
    IF n = 0 THEN <<>>
    ELSE InsertVersion(SortVersions(versions, n - 1), versions[n])

\* the version list left in the order of the snapshots
SummaryVersionsUnsorted(final) == DistinctVersions(final, Len(final))

\* Array.from(new Set(versions)).sort(compareVersions)
SummaryVersions(final) ==
    LET versions == DistinctVersions(final, Len(final))
    IN  SortVersions(versions, Len(versions))

\* new Date(timestamp || Date.now()): the clock for a missing snapshot and for
\* a timestamp of 0
DateOr(final, index, t) ==
    IF index \in 1..Len(final) /\ final[index].snapshot.timestamp # 0
    THEN final[index].snapshot.timestamp
    ELSE t

\* the summary of the report
Summary(final, t) ==
    [totalSnapshots |-> Len(final),
     dateRange |-> [from |-> DateOr(final, 1, t), to |-> DateOr(final, Len(final), t)],
     versions |-> SummaryVersions(final),
     totalChanges |-> Cardinality({i \in 1..Len(final) : final[i].changed}),
     importantChanges |->
         Cardinality({i \in 1..Len(final) : final[i].importance = "high"})]

\* generateReport(snapshots, config, options) at the time t
GenerateReportResult(snapshots, config, filters, t) ==
    LET filtered  == FilteredSnapshots(snapshots, filters)
        processed == [i \in 1..Len(filtered) |->
                         Processed(filtered, i, config, filters)]
        final     == IF filters.onlyImportant
                     THEN SelectSeq(processed, LAMBDA s : s.importance = "high")
                     ELSE processed
    IN  [ran |-> TRUE, filtered |-> filtered, snapshots |-> final,
         summary |-> Summary(final, t)]

AllButReport == <<storeVars, raceVars, diffVars, valVars, managerVars,
                  formatVars, undoVars>>

ReportInit ==
    /\ \E snapshots \in ReportLists, config \in ReportConfigs,
          filters \in ReportFilters :
           repIn = [ran |-> TRUE, snapshots |-> snapshots, config |-> config,
                    filters |-> filters]
    /\ repOut = NoReport
    /\ StoreValDiffIdle /\ ManagerIdle /\ FormatIdle /\ UndoIdle

GenerateReport ==
    /\ ~repOut.ran
    /\ repOut' = GenerateReportResult(repIn.snapshots, repIn.config,
                                      repIn.filters, now)
    /\ UNCHANGED <<repIn, AllButReport>>

NextReport == GenerateReport

SpecReport == ReportInit /\ [][NextReport]_vars

-----------------------------------------------------------------------------
(* The report: classification and changes                                   *)

\* the position in the filtered list of the snapshot of a report entry
PositionOf(entry) ==
    CHOOSE i \in 1..Len(repOut.filtered) : repOut.filtered[i].id = entry.snapshot.id

ReportEntries == {repOut.snapshots[i] : i \in 1..Len(repOut.snapshots)}

MarkedImportant(field) ==
    field \in DOMAIN repIn.config /\ repIn.config[field].important

\* C22: every snapshot of a report is high when a changed field is marked
\* important, whatever the number of changed fields; otherwise medium when
\* more than three fields changed; otherwise low; and the first snapshot of
\* the filtered list, which has no predecessor, is low.
ImportanceFollowsChanges ==
    repOut.ran =>
        \A entry \in ReportEntries :
            /\ (\E f \in DOMAIN entry.changes : MarkedImportant(f))
                   => entry.importance = "high"
            /\ (\A f \in DOMAIN entry.changes : ~MarkedImportant(f))
                   => /\ Cardinality(DOMAIN entry.changes) > 3
                          => entry.importance = "medium"
                      /\ Cardinality(DOMAIN entry.changes) <= 3
                          => entry.importance = "low"
            /\ PositionOf(entry) = 1 => entry.importance = "low"

\* a report with a snapshot of three changed fields classified low, one of
\* four classified medium, and none of the fields marked important
ThreeLowFourMedium ==
    /\ repOut.ran
    /\ \E low \in ReportEntries, medium \in ReportEntries :
           /\ Cardinality(DOMAIN low.changes) = 3 /\ low.importance = "low"
           /\ Cardinality(DOMAIN medium.changes) = 4 /\ medium.importance = "medium"

\* the config that declares every field of a state
DeclaringAll(state) == [f \in DOMAIN state |-> [important |-> FALSE]]

\* what createAutoSnapshot's forEach reports between two states, restricted to
\* the fields of the filter
AutoSnapshotChanges(current, prev) ==
    LET all == ChangesOf(DeclaringAll(current), current, prev)
    IN  [f \in {g \in DOMAIN all :
                   ~repIn.filters.fields.given
                   \/ Includes(repIn.filters.fields.value, g)} |-> all[f]]

\* C23: for each snapshot of a report after the first of the filtered list,
\* the changes map is what the per-field check of createAutoSnapshot
\* reports between its state and the state of its predecessor in that list.
ReportChangesAreAutoSnapshotChanges ==
    repOut.ran =>
        \A entry \in ReportEntries :
            PositionOf(entry) > 1 =>
                entry.changes =
                    AutoSnapshotChanges(entry.snapshot.state,
                        repOut.filtered[PositionOf(entry) - 1].state)

-----------------------------------------------------------------------------
(* The report: summary                                                      *)

\* v comes before w in the numeric order of dotted versions
NumericallyBefore(v, w) ==
    \E k \in 1..MaxSegments :
        /\ Padded(v)[k] < Padded(w)[k]
        /\ \A j \in 1..(k - 1) : Padded(v)[j] = Padded(w)[j]

\* C24: the summary agrees with the snapshot list of the report: its total is
\* the length of the list; when the list is not empty the date range runs from
\* the least to the greatest timestamp in it; versions holds each version of
\* the list once, in ascending numeric order; totalChanges counts the
\* snapshots with a non-empty changes map and importantChanges those
\* classified high.  (Timestamps are positive, as Date.now() gives them.)
SummaryAgreesWithSnapshots ==
    repOut.ran =>
        LET final   == repOut.snapshots
            summary == repOut.summary
            stamps  == {final[i].snapshot.timestamp : i \in 1..Len(final)}
        IN  /\ summary.totalSnapshots = Len(final)
            /\ final # <<>> =>
                   /\ summary.dateRange.from \in stamps
                   /\ summary.dateRange.to \in stamps
                   /\ \A t \in stamps : summary.dateRange.from <= t
                                        /\ t <= summary.dateRange.to
                   /\ summary.dateRange.from <= summary.dateRange.to
            /\ {summary.versions[i] : i \in 1..Len(summary.versions)}
                   = {final[i].snapshot.version : i \in 1..Len(final)}
            /\ \A i \in 1..Len(summary.versions), j \in 1..Len(summary.versions) :
                   i < j => NumericallyBefore(summary.versions[i], summary.versions[j])
            /\ summary.totalChanges =
                   Cardinality({i \in 1..Len(final) : DOMAIN final[i].changes # {}})
            /\ summary.importantChanges =
                   Cardinality({i \in 1..Len(final) : final[i].importance = "high"})

\* a report of three snapshots over two timestamps, in which version 1.10
\* comes before version 1.2 and a snapshot is classified high
SummaryOfMixedReport ==
    /\ repOut.ran
    /\ Len(repOut.snapshots) = 3
    /\ repOut.summary.dateRange.from < repOut.summary.dateRange.to
    /\ repOut.snapshots[1].snapshot.version = <<1, 10>>
    /\ repOut.snapshots[2].snapshot.version = <<1, 2>>
    /\ repOut.summary.totalChanges = 2
    /\ repOut.summary.importantChanges = 1

-----------------------------------------------------------------------------
(* The report: order and filters                                            *)

ReportInputs == {repIn.snapshots[i] : i \in 1..Len(repIn.snapshots)}

\* s comes before u in the report's order: by timestamp, then by the place
\* in the input
ComesBefore(s, u) ==
    s.timestamp < u.timestamp \/ (s.timestamp = u.timestamp /\ s.id < u.id)

InDateRange(s) ==
    /\ repIn.filters.fromDate.given => s.timestamp >= repIn.filters.fromDate.value
    /\ repIn.filters.toDate.given => s.timestamp <= repIn.filters.toDate.value

\* the allow-list read as the claim words it: any list given, empty or not
InGivenVersions(s) ==
    repIn.filters.versions.given => Includes(repIn.filters.versions.value, s.version)

\* the allow-list as a list with at least one version
InListedVersions(s) ==
    (repIn.filters.versions.given /\ repIn.filters.versions.value # <<>>)
        => Includes(repIn.filters.versions.value, s.version)

\* whether s is classified high among the snapshots that pass: a field of
\* the field filter, marked important, differs in text from the value the
\* snapshot just before s holds
HighAmong(s, passing) ==
    \E p \in passing :
        /\ ComesBefore(p, s)
        /\ \A q \in passing : ComesBefore(q, s) => (q = p \/ ComesBefore(q, p))
        /\ \E f \in DOMAIN s.state :
               /\ MarkedImportant(f)
               /\ ~repIn.filters.fields.given
                  \/ Includes(repIn.filters.fields.value, f)
               /\ JsonStringify(s.state[f]) # JsonStringify(p.state[f])

\* the report holds its snapshots once each, unaltered, in ascending order of
\* timestamp, those of one timestamp in the order of the input; and it holds
\* exactly the inputs that pass the date range, the version list and, when
\* onlyImportant is set, are classified high
ReportIsSortedAndFiltered(InVersions(_)) ==
    LET final   == repOut.snapshots
        passing == {s \in ReportInputs : InDateRange(s) /\ InVersions(s)}
    IN  /\ \A i \in 1..Len(final), j \in 1..Len(final) :
               i < j => ComesBefore(final[i].snapshot, final[j].snapshot)
        /\ \A s \in ReportInputs :
               (\E i \in 1..Len(final) : final[i].snapshot = s)
                   <=> /\ s \in passing
                       /\ repIn.filters.onlyImportant => HighAmong(s, passing)
        /\ \A i \in 1..Len(final) : final[i].snapshot \in ReportInputs

\* C25 as stated: the report is sorted by timestamp, stably, and holds an
\* input snapshot exactly when its timestamp is within [fromDate, toDate], its
\* version is in the allow-list when one is given, and it is classified high
\* when onlyImportant is set.
ReportFilteredByGivenList ==
    repOut.ran => ReportIsSortedAndFiltered(InGivenVersions)

\* C25 amended: the same, the allow-list applying when it holds at least one
\* version; an empty allow-list filters nothing.
ReportFilteredByListedVersions ==
    repOut.ran => ReportIsSortedAndFiltered(InListedVersions)

\* a report under a date bound, a version list and onlyImportant that keeps
\* one of two snapshots passing the first two filters
OneOfTwoKept ==
    /\ repOut.ran
    /\ repIn.filters.fromDate.given
    /\ repIn.filters.versions.given /\ repIn.filters.versions.value # <<>>
    /\ repIn.filters.onlyImportant
    /\ Len(repOut.filtered) = 2
    /\ Len(repOut.snapshots) = 1

-----------------------------------------------------------------------------
(* The report formatters (formatReport and its renderers)                   *)

\* A string is the sequence of its characters.  A rendered document is the
\* sequence of its pieces, its text their concatenation: a piece is text of
\* the template (markup, named by what it opens or closes) or a string taken
\* from the report (content, with the place it was taken from).
Markup(name) == [kind |-> "markup", of |-> name, text |-> <<>>]
Content(place, text) == [kind |-> "content", of |-> place, text |-> text]

\* strings a user puts into a version, a field name, a value or the metadata
UserStrings == {<<"a">>, <<"<", "&", "'">>, <<"|", "*", "[">>}

\* htmlEscape: & < > " ' each replaced by its entity
HtmlEscapeChar(c) ==
    CASE c = "&"  -> "&amp;"
      [] c = "<"  -> "&lt;"
      [] c = ">"  -> "&gt;"
      [] c = "\"" -> "&quot;"
      [] c = "'"  -> "&#039;"
      [] OTHER    -> c

HtmlEscape(text) == [i \in 1..Len(text) |-> HtmlEscapeChar(text[i])]

\* mdEscape: each of * _ [ ] and the backquote (written "BACKQUOTE" here) gets
\* a backslash in front of it
RECURSIVE MdEscape(_)
MdEscape(text) ==
    IF text = <<>> THEN <<>>
    ELSE (IF Head(text) \in {"*", "_", "BACKQUOTE", "[", "]"}
          THEN <<"\\", Head(text)>> ELSE <<Head(text)>>) \o MdEscape(Tail(text))

\* JSON.stringify of a string without quotes or backslashes in it
JsonOfString(text) == <<"\"">> \o text \o <<"\"">>

\* JSON.stringify(metadata, null, 2) of { description: text }
JsonOfMetadata(text) ==
    <<"{", "\"", "description", "\"", ":">> \o JsonOfString(text) \o <<"}">>

\* versions.join(', ')
RECURSIVE Join(_)
Join(strings) ==
    IF strings = <<>> THEN <<>>
    ELSE IF Len(strings) = 1 THEN strings[1]
    ELSE strings[1] \o <<",", " ">> \o Join(Tail(strings))

\* report.snapshots.filter(s => s.importance === importance)
ImportanceGroup(report, importance) ==
    SelectSeq(report.snapshots, LAMBDA s : s.importance = importance)

\* parts.join(''): the parts one after another
RECURSIVE Concat(_)
Concat(parts) ==
    IF parts = <<>> THEN <<>> ELSE Head(parts) \o Concat(Tail(parts))

\* the snapshots an entry list is drawn from carry: a version, a metadata
\* description or none, and the changes as the list of Object.entries
FormatEntry(version, metadata, changes, importance) ==
    [snapshot |-> [version |-> version, metadata |-> metadata],
     changes |-> changes, importance |-> importance]

(* formSnapshotMarkdown.ts *)

\* formatChangesAsTable: a row of three cells for each change
MdChangesTable(changes) ==
    <<Markup("table")>> \o
    Concat([i \in 1..Len(changes) |->
        <<Markup("row"),
          Content("field", MdEscape(changes[i].field)),
          Markup("cell"),
          Content("value", MdEscape(JsonOfString(changes[i].from))),
          Markup("cell"),
          Content("value", MdEscape(JsonOfString(changes[i].to))),
          Markup("end of row")>>])

\* addSnapshotSection
MdSnapshotSection(entry) ==
    <<Markup("heading"), Content("version", MdEscape(entry.snapshot.version)),
      Markup("time")>>
    \o (IF entry.changes # <<>> THEN MdChangesTable(entry.changes) ELSE <<>>)
    \o (IF entry.snapshot.metadata.given
        THEN <<Markup("code block"),
               Content("metadata", JsonOfMetadata(entry.snapshot.metadata.value)),
               Markup("end of code block")>>
        ELSE <<>>)
    \o <<Markup("rule")>>

MdSections(entries) ==
    Concat([i \in 1..Len(entries) |-> MdSnapshotSection(entries[i])])

\* formatMarkdownReport of formSnapshotMarkdown.ts
FormatMarkdownReport(report) ==
    <<Markup("summary"), Content("versions", Join(report.summary.versions)),
      Markup("snapshots")>>
    \o (IF ImportanceGroup(report, "high") # <<>>
        THEN <<Markup("high")>> \o MdSections(ImportanceGroup(report, "high"))
        ELSE <<>>)
    \o (IF ImportanceGroup(report, "medium") # <<>>
        THEN <<Markup("medium")>> \o MdSections(ImportanceGroup(report, "medium"))
        ELSE <<>>)
    \o (IF ImportanceGroup(report, "low") # <<>>
        THEN <<Markup("low"), Markup("details")>>
             \o MdSections(ImportanceGroup(report, "low"))
             \o <<Markup("end of details")>>
        ELSE <<>>)

(* the HTML renderer *)

\* formatChangesTable
HtmlChangesTable(changes) ==
    <<Markup("table")>> \o
    Concat([i \in 1..Len(changes) |->
        <<Markup("row"),
          Content("field", HtmlEscape(changes[i].field)),
          Markup("cell"),
          Content("value", HtmlEscape(JsonOfString(changes[i].from))),
          Markup("cell"),
          Content("value", HtmlEscape(JsonOfString(changes[i].to))),
          Markup("end of row")>>])
    \o <<Markup("end of table")>>

\* formatSnapshotSection
HtmlSnapshotSection(entry) ==
    <<Markup("card"), Content("version", HtmlEscape(entry.snapshot.version)),
      Markup("badge"), Markup("time")>>
    \o (IF entry.changes # <<>> THEN HtmlChangesTable(entry.changes) ELSE <<>>)
    \o (IF entry.snapshot.metadata.given
        THEN <<Markup("pre"),
               Content("metadata",
                       HtmlEscape(JsonOfMetadata(entry.snapshot.metadata.value))),
               Markup("end of pre")>>
        ELSE <<>>)
    \o <<Markup("end of card")>>

HtmlSections(entries) ==
    Concat([i \in 1..Len(entries) |-> HtmlSnapshotSection(entries[i])])

\* formatHtmlReport of the HTML renderer
FormatHtmlReport(report) ==
    <<Markup("summary"), Content("versions", Join(report.summary.versions)),
      Markup("snapshots")>>
    \o (IF ImportanceGroup(report, "high") # <<>>
        THEN <<Markup("high")>> \o HtmlSections(ImportanceGroup(report, "high"))
        ELSE <<>>)
    \o (IF ImportanceGroup(report, "medium") # <<>>
        THEN <<Markup("medium")>> \o HtmlSections(ImportanceGroup(report, "medium"))
        ELSE <<>>)
    \o (IF ImportanceGroup(report, "low") # <<>>
        THEN <<Markup("low"), Markup("details")>>
             \o HtmlSections(ImportanceGroup(report, "low"))
             \o <<Markup("end of details")>>
        ELSE <<>>)

(* formatReport and the renderers beside it *)

\* formatTextReport: nothing is escaped
TextSnapshotSection(entry) ==
    <<Markup("version"), Content("version", entry.snapshot.version),
      Markup("importance")>>
    \o Concat([i \in 1..Len(entry.changes) |->
           <<Content("field", entry.changes[i].field),
             Markup("from"), Content("value", JsonOfString(entry.changes[i].from)),
             Markup("to"), Content("value", JsonOfString(entry.changes[i].to))>>])

FormatTextReport(report) ==
    <<Markup("summary"), Content("versions", Join(report.summary.versions)),
      Markup("snapshots")>>
    \o Concat([i \in 1..Len(report.snapshots) |->
           TextSnapshotSection(report.snapshots[i])])

\* the formatMarkdownReport and formatHtmlReport that stand beside formatReport:
\* return ''
LocalFormatMarkdownReport(report) == <<>>
LocalFormatHtmlReport(report) == <<>>

\* JSON.stringify(report, null, 2): the report itself as one piece of text
JsonOfReport(report) == <<[kind |-> "json", of |-> "report", text |-> report]>>

\* formatReport(report, format); format "none" is the argument left out
FormatReportResult(report, format) ==
    CASE format = "markdown" -> LocalFormatMarkdownReport(report)
      [] format = "html"     -> LocalFormatHtmlReport(report)
      [] format = "json"     -> JsonOfReport(report)
      [] OTHER               -> FormatTextReport(report)

Formats == {"text", "markdown", "html", "json", "none"}
Importances == {"high", "medium", "low"}

\* the reports handed to formatReport: three snapshots of any importance, the
\* first without changes, the others with one changed field; the strings of
\* the report drawn from the user strings
FormatReports ==
    {[summary |-> [versions |-> <<version, <<"b">> >>],
      snapshots |->
          <<FormatEntry(version, metadata, <<>>, importance[1]),
            FormatEntry(<<"b">>, NotGiven,
                <<[field |-> field, from |-> <<"a">>, to |-> value]>>, importance[2]),
            FormatEntry(version, metadata,
                <<[field |-> field, from |-> value, to |-> <<"a">>]>>, importance[3])>>] :
        version \in UserStrings, field \in UserStrings, value \in UserStrings,
        metadata \in {NotGiven} \cup {Given(u) : u \in UserStrings},
        importance \in [1..3 -> Importances]}

AllButFormat == <<storeVars, raceVars, diffVars, valVars, managerVars,
                  reportVars, undoVars>>

FormatInit ==
    /\ \E report \in FormatReports, format \in Formats :
           fmtIn = [ran |-> TRUE, report |-> report, format |-> format]
    /\ fmtOut = NoFormat
    /\ StoreValDiffIdle /\ ManagerIdle /\ ReportIdle /\ UndoIdle

\* the call formatReport(report, format), with what the two renderers of
\* formSnapshotMarkdown.ts and of the HTML module make of the same report
FormatReport ==
    /\ ~fmtOut.ran
    /\ fmtOut' = [ran |-> TRUE,
                  text |-> FormatReportResult(fmtIn.report, fmtIn.format),
                  markdown |-> FormatMarkdownReport(fmtIn.report),
                  html |-> FormatHtmlReport(fmtIn.report)]
    /\ UNCHANGED <<fmtIn, AllButFormat>>

NextFormat == FormatReport

SpecFormat == FormatInit /\ [][NextFormat]_vars

-----------------------------------------------------------------------------
(* The formatters: dispatch and escaping                                    *)

\* the places of the pieces of a document named `of'
PlacesOf(document, of) ==
    {i \in 1..Len(document) : document[i].kind = "markup" /\ document[i].of = of}

\* the document holds a section for every snapshot of the report, those of
\* high importance first, then medium, then low, the low ones between the
\* opening and the closing of a details element
GroupedByImportance(document, report, section) ==
    /\ Cardinality(PlacesOf(document, section)) = Len(report.snapshots)
    /\ \A h \in PlacesOf(document, "high"), m \in PlacesOf(document, "medium") : h < m
    /\ \A m \in PlacesOf(document, "medium"), l \in PlacesOf(document, "low") : m < l
    /\ \A h \in PlacesOf(document, "high"), l \in PlacesOf(document, "low") : h < l
    /\ ImportanceGroup(report, "low") # <<>> =>
           \E open \in PlacesOf(document, "details"),
              close \in PlacesOf(document, "end of details") :
               /\ \A l \in PlacesOf(document, "low") : l < open
               /\ Cardinality({s \in PlacesOf(document, section) :
                                   open < s /\ s < close})
                      = Len(ImportanceGroup(report, "low"))

\* C26: formatReport returns, for 'markdown' and 'html', what
\* formatMarkdownReport of formSnapshotMarkdown.ts and formatHtmlReport of the
\* HTML module make of the report, a document with every snapshot grouped
\* high, medium, low, the low group collapsed; for 'json' the serialized
\* report; for 'text' or no format the plain text.
FormatReportUsesTheRenderers ==
    fmtOut.ran =>
        /\ fmtIn.format = "markdown" =>
               /\ fmtOut.text = FormatMarkdownReport(fmtIn.report)
               /\ GroupedByImportance(fmtOut.text, fmtIn.report, "heading")
        /\ fmtIn.format = "html" =>
               /\ fmtOut.text = FormatHtmlReport(fmtIn.report)
               /\ GroupedByImportance(fmtOut.text, fmtIn.report, "card")
        /\ fmtIn.format = "json" => fmtOut.text = JsonOfReport(fmtIn.report)
        /\ fmtIn.format \in {"text", "none"} =>
               fmtOut.text = FormatTextReport(fmtIn.report)

HtmlSpecials == {"&", "<", ">", "\"", "'"}
MarkdownSpecials == {"|", "*", "_", "BACKQUOTE", "[", "]"}

ContentOf(document) ==
    {document[i] : i \in {j \in 1..Len(document) : document[j].kind = "content"}}

\* C27: every string of the report (field names, values, versions, the
\* summary's version list, metadata) is escaped where the Markdown and the
\* HTML renderer embed it: no & < > " ' is left in the HTML, and in the
\* Markdown every table cell separator, emphasis, code and link character has
\* a backslash in front of it.
UserStringsAreEscaped ==
    fmtOut.ran =>
        /\ \A piece \in ContentOf(fmtOut.html) :
               \A i \in 1..Len(piece.text) : piece.text[i] \notin HtmlSpecials
        /\ \A piece \in ContentOf(fmtOut.markdown) :
               \A i \in 1..Len(piece.text) :
                   piece.text[i] \in MarkdownSpecials
                       => i > 1 /\ piece.text[i - 1] = "\\"

-----------------------------------------------------------------------------
(* The migration manager: there and back                                    *)

\* the states an upgrade of a form's state passes through
UpgradeStates ==
    {FormState} \cup {Up(m, FormState) : m \in Catalog}
        \cup {Up(n, Up(m, FormState)) : m \in Catalog, n \in Catalog}

\* both functions of m return and m.down(m.up(s)) is s for every such state
Reversible(m) ==
    /\ m.up \in {"sync", "async"}
    /\ m.down \in {"sync", "async"}
    /\ \A s \in UpgradeStates : Down(m, Up(m, s)) = s

\* a first call upgraded the snapshot it was given to a registered version and
\* a second call, given the result, has returned from the way back to the
\* version of that snapshot
WentThereAndBack ==
    /\ call.calls = 2
    /\ call.phase = "returned"
    /\ \A m \in registered : Reversible(m)
    /\ CompareVersions(call.input.version, call.origin.version) > 0
    /\ \E m \in registered : m.version = call.input.version
    /\ CompareVersions(call.target, call.origin.version) = 0

\* the state the way back returned is the state the way there started from
StateIsBack == WentThereAndBack => call.result.state = call.origin.state

\* C28: for a manager of reversible migrations, an upgrade from v to a
\* registered version followed by migrateToVersion back to v returns the
\* original state under a version that compares equal to v, so that one more
\* migrateToVersion to v has no migration to apply.
ThereAndBackIsWhereItStarted ==
    WentThereAndBack =>
        /\ call.result.state = call.origin.state
        /\ CompareVersions(call.result.version, call.origin.version) = 0
        /\ RelevantMigrations(migrations, call.result.version, call.target) = <<>>

-----------------------------------------------------------------------------
(* The snapshot store: managers of several forms and namespaces             *)

\* constructor(formId, { namespace, ... }): options.namespace || 'form_snapshots'
ConstructorUnder(namespaceOpt, formId, maxSnapshotsOpt, autoCleanup, compressed) ==
    [Constructor(formId, maxSnapshotsOpt, autoCleanup, compressed)
        EXCEPT !.snapshotKey =
            SnapshotKeyOf(IF namespaceOpt = "" THEN DefaultNamespace
                          ELSE namespaceOpt, formId)]

\* namespaces and form identities a caller builds managers with
Namespaces == {"a", "a_b"}
FormIds    == {"c", "b_c"}
Identities == [namespace : Namespaces, formId : FormIds]

KeyOf(identity) == SnapshotKeyOf(identity.namespace, identity.formId)

\* the manager of an identity, with the options of the manager at work
ManagerOf(identity) ==
    ConstructorUnder(identity.namespace, identity.formId, opts.maxSnapshots,
                     opts.autoCleanup, opts.compressionEnabled)

\* the snapshot list of an identity in a storage
ListOf(identity, store) == GetSnapshots(ManagerOf(identity), store, FALSE).items

IsoInit ==
    /\ storage = [k \in {KeyOf(i) : i \in Identities} |-> Absent]
    /\ \E identity \in Identities :
           opts = ConstructorUnder(identity.namespace, identity.formId,
                                   MaxSnapshots, TRUE, FALSE)
    /\ nextId = 1
    /\ now = 0
    /\ last = Idle
    /\ RaceIdle /\ DiffIdle /\ ValIdle /\ ManagerIdle /\ RestIdle

SpecIso == IsoInit /\ [][Next]_vars

\* C29: an operation of the manager built for the form identity F under the
\* namespace N leaves the snapshot list of every other pair of a namespace
\* and a form identity as it was.
OtherIdentitiesUntouched ==
    [][\A mine \in Identities, other \in Identities :
           (mine # other /\ opts.snapshotKey = KeyOf(mine))
               => ListOf(other, storage') = ListOf(other, storage)]_vars

-----------------------------------------------------------------------------
(* The undo/redo middleware (createUndoRedoMiddleware) under execute        *)

\* the states of the form a caller hands to execute, and the {} the history
\* is created with
UndoStates  == {"draft", "filled"}
EmptyObject == "{}"

\* the history of a middleware just created
NewHistory == [past |-> <<>>, present |-> EmptyObject, future |-> <<>>]

NothingPassed == [given |-> FALSE, value |-> ""]

\* the actions dispatched: an ordinary action (any type but CUSTOM), and
\* CUSTOM with meta.type UNDO, REDO or something else
ActionKinds == {"ordinary", "UNDO", "REDO", "custom"}

\* the middleware called with (state, action, next): the history it leaves
\* and the state it hands to next, if it calls next
UndoRedoMiddleware(h, state, kind) ==
    CASE kind = "UNDO" ->
           IF Len(h.past) > 0
           THEN LET previous == h.past[Len(h.past)]
                IN  [history |-> [past    |-> SubSeq(h.past, 1, Len(h.past) - 1),
                                  present |-> previous,
                                  future  |-> <<h.present>> \o h.future],
                     passed |-> Given(previous)]
           ELSE [history |-> h, passed |-> NothingPassed]
      [] kind = "REDO" ->
           IF Len(h.future) > 0
           THEN [history |-> [past    |-> Append(h.past, h.present),
                              present |-> h.future[1],
                              future  |-> Tail(h.future)],
                 passed |-> Given(h.future[1])]
           ELSE [history |-> h, passed |-> NothingPassed]
      [] kind = "custom" -> [history |-> h, passed |-> Given(state)]
      [] OTHER ->
           [history |-> [past    |-> Append(h.past, h.present),
                         present |-> state,
                         future  |-> <<>>],
            passed |-> Given(state)]

AllButUndo == <<storeVars, raceVars, diffVars, valVars, managerVars,
                reportVars, formatVars>>

UndoInit ==
    /\ history = NewHistory
    /\ dispatched = <<>>
    /\ StoreValDiffIdle /\ ManagerIdle /\ ReportIdle /\ FormatIdle

\* execute(state, action, finalHandler) of a manager whose one middleware is
\* the undo/redo middleware: next(state) calls the middleware, whose next
\* calls finalHandler.  The log keeps the action, the state it came with, the
\* present it met and the state finalHandler was called with.
Dispatch(kind) ==
    /\ Len(dispatched) < MaxDispatches
    /\ \E state \in UndoStates :
           LET done == UndoRedoMiddleware(history, state, kind)
           IN  /\ history' = done.history
               /\ dispatched' = Append(dispatched,
                      [kind |-> kind, state |-> state,
                       present |-> history.present, passed |-> done.passed])

Ordinary == Dispatch("ordinary") /\ UNCHANGED AllButUndo
Undo     == Dispatch("UNDO") /\ UNCHANGED AllButUndo
Redo     == Dispatch("REDO") /\ UNCHANGED AllButUndo
Custom   == Dispatch("custom") /\ UNCHANGED AllButUndo

NextUndo == Ordinary \/ Undo \/ Redo \/ Custom

SpecUndo == UndoInit /\ [][NextUndo]_vars

\* past, present and future as one line of states
Line(h) == h.past \o <<h.present>> \o h.future

\* the dispatch a step has just logged
Latest == dispatched'[Len(dispatched')]

\* the log is n ordinary actions followed by n UNDOs
AllUndone(log) ==
    /\ Len(log) > 0
    /\ Len(log) % 2 = 0
    /\ \A i \in 1..Len(log) :
           log[i].kind = IF 2 * i <= Len(log) THEN "ordinary" ELSE "UNDO"

\* UNDO and REDO move the cursor along an unchanged line, and a REDO right
\* after an UNDO that passed a state on passes on the present the UNDO met
CursorOnlyMoves ==
    [][/\ Latest.kind \in {"UNDO", "REDO"} => Line(history') = Line(history)
       /\ (/\ Latest.kind = "REDO"
           /\ dispatched # <<>>
           /\ dispatched[Len(dispatched)].kind = "UNDO"
           /\ dispatched[Len(dispatched)].passed.given)
              => Latest.passed = Given(dispatched[Len(dispatched)].present)]_vars

\* an ordinary action pushes the old present onto past and empties future
OrdinaryActionPushes ==
    [][Latest.kind = "ordinary" =>
           /\ history'.past = Append(history.past, history.present)
           /\ history'.present = Latest.state
           /\ history'.future = <<>>
           /\ Latest.passed = Given(Latest.state)]_vars

\* UNDO on an empty past and REDO on an empty future change nothing and pass
\* nothing on
NothingToMoveTo ==
    [][((Latest.kind = "UNDO" /\ history.past = <<>>)
        \/ (Latest.kind = "REDO" /\ history.future = <<>>))
           => history' = history /\ ~Latest.passed.given]_vars

\* C30: UNDO and REDO only move the cursor along the line past, present,
\* future, so an UNDO followed at once by a REDO passes on the state that
\* was present before the UNDO; an ordinary action pushes the old present
\* onto past and empties future; UNDO with an empty past and REDO with an
\* empty future change nothing and pass no state on; and when every ordinary
\* action dispatched has been undone, the last UNDO passes on the state the
\* form had when the first of them was dispatched.
UndoRedoMovesTheCursor ==
    [][/\ Latest.kind \in {"UNDO", "REDO"} => Line(history') = Line(history)
       /\ (/\ Latest.kind = "REDO"
           /\ dispatched # <<>>
           /\ dispatched[Len(dispatched)].kind = "UNDO"
           /\ dispatched[Len(dispatched)].passed.given)
              => Latest.passed = Given(dispatched[Len(dispatched)].present)
       /\ Latest.kind = "ordinary" =>
              /\ history'.past = Append(history.past, history.present)
              /\ history'.future = <<>>
       /\ ((Latest.kind = "UNDO" /\ history.past = <<>>)
           \/ (Latest.kind = "REDO" /\ history.future = <<>>))
              => history' = history /\ ~Latest.passed.given
       /\ AllUndone(dispatched') =>
              Latest.passed = Given(dispatched'[1].state)]_vars

====
